---- MODULE Spec2Model ----
(***************************************************************************)
(* Token lifecycle engine of the Claude OAuth broker:                      *)
(*   litellm/proxy/auth/claude_token_manager.py  (ClaudeTokenManager)      *)
(*   litellm/proxy/auth/claude_oauth_endpoints.py (/refresh, /revoke)      *)
(*   litellm/proxy/auth/claude_oauth_flow.py     (ClaudeOAuthFlow)         *)
(*   litellm/proxy/auth/claude_auth_service.py   (ClaudeAuthService)       *)
(*   litellm/proxy/auth/claude_oauth_db.py       (ClaudeOAuthDatabase)     *)
(*                                                                         *)
(* The manager runs on one asyncio event loop.  A coroutine runs without   *)
(* interruption between two awaits; the loop keeps a FIFO queue of ready   *)
(* handles and, once per iteration, polls for I/O completions, timers and  *)
(* new requests.  Each action below is one such uninterrupted stretch of   *)
(* code or one event delivered by the poll.                                *)
(*                                                                         *)
(* Of ClaudeTokenInfo the model keeps access_token, refresh_token,         *)
(* expires_at and refresh_count; scopes, is_max and last_used are carried  *)
(* along by the code and decide nothing in it.                             *)
(***************************************************************************)
EXTENDS Integers, Sequences, FiniteSets, TLC

\* ---------------------------------------------------------------- bounds
MaxTime == 3          \* the clock runs over 0..MaxTime
MaxTasks == 2         \* coroutines alive at once, the monitor excluded
MaxIssued == 2        \* token pairs the provider issues in one run
MaxRaceIssued == 4    \* the same, in the runs of SpecRace
CallsCap == 2         \* the count of refresh requests saturates here
ExpiresIn == 2        \* expires_in the provider answers with
AllUsers == {"u1", "u2"}
MaxStates == 2        \* flow states that generate_state hands out in one run
MaxFlows == 2         \* complete_oauth_flow calls under way at once
FlowTick == 300       \* seconds by which the clock of the flow store advances
MaxFlowTime == 1200   \* the clock of the flow store runs over 0..MaxFlowTime
MaxReadGap == 1       \* seconds that pass between two clock reads of one call
MaxKeys == 2          \* encryption keys in use over one run
MaxDbCalls == 2       \* calls of ClaudeOAuthDatabase under way at once
MaxPkceStates == 2    \* states that get_authorization_url hands out in one run
MaxExchanges == 2     \* exchange_code_for_token calls under way at once
MaxDbCount == 2       \* refresh_count of a database row stays within 0..MaxDbCount

\* ------------------------------------------------------- program constants
refresh_threshold == 1   \* constructor parameter (default 300)
max_retries == 3
STATE_EXPIRY_SECONDS == 600
StateMaxAge == 600       \* verify_state: a state older than this is refused
PkceMaxAge == 600        \* get_authorization_url: verifiers of this age are dropped

TaskIds == 1..MaxTasks
MonitorId == 0

\* ClaudeTokenInfo; 0 stands for None in refresh_token.
\* Absent is "no record" (dict.get -> None).
Absent == [access_token |-> 0, refresh_token |-> 0, expires_at |-> 0, refresh_count |-> 0]

\* The dict kept in the cache under claude_token:<user_id>; NoData is the
\* None that async_get_cache answers when the key is not set.
NoData == [accessToken |-> 0, refreshToken |-> 0, expiresAt |-> 0, refresh_count |-> 0]

NoResp == [status |-> 0, access_token |-> 0, refresh_token |-> 0, expires_at |-> 0]

Free == [kind |-> "free", pc |-> "none", user |-> "none", tok |-> Absent,
         attempt |-> 0, deadline |-> 0, auto |-> FALSE,
         origin |-> "none", resp |-> NoResp, clean |-> TRUE, todo |-> << >>,
         sent |-> 0]

NoRet == [op |-> "none", user |-> "none", value |-> 0, exp |-> 0, time |-> 0]

\* The state value "manual_entry", which generate_state never draws.
manual_entry == 0

\* Flow states are numbered in the order generate_state draws them; one
\* more value stands for a state that was never handed out.
AnyState == {manual_entry} \cup 1..(MaxStates + 1)
FlowIds == 1..MaxFlows

\* A state file (OAuthState); NoFile: the file does not exist, and the
\* None that load_state returns.
NoFile == [code_verifier |-> 0, timestamp |-> 0, expires_at |-> 0]

\* token_data of the auth service; NoTokens: nothing held.
NoTokens == [accessToken |-> 0, refreshToken |-> 0, expiresAt |-> 0]

\* A string as it is written to a file or a database column: the text x
\* itself, or a Fernet token that seals x under a key.  The text 0 is the
\* empty string and None.
Plain(x) == [sealed |-> FALSE, key |-> 0, text |-> x]

\* The token file; NoTokenFile: the file does not exist.
NoTokenFile == [accessToken |-> Plain(0), refreshToken |-> Plain(0), expiresAt |-> 0]

Keys == 1..MaxKeys
DbIds == 1..MaxDbCalls

\* A row of litellm_claudeoauthtokens; NoRow: the user has no row.
NoRow == [access_token_encrypted |-> Plain(0), refresh_token_encrypted |-> Plain(0),
          expires_at |-> 0, refresh_count |-> 0]

\* A call of ClaudeOAuthDatabase: its position and locals.
NoCall == [pc |-> "idle", user |-> "none", data |-> NoRow, existing |-> NoRow]

NoDbRet == [op |-> "none", user |-> "none", result |-> "none",
            accessToken |-> Plain(0), refreshToken |-> Plain(0)]

\* request_data as the middleware reads and writes it: the model, the API
\* key (0: none), metadata.claude_oauth_token (0: none), the Bearer token
\* put in place of a missing API key (0: none), metadata.using_claude_oauth.
NoRequestData == [model |-> "none", api_key |-> 0, claude_oauth_token |-> 0,
                  bearer |-> 0, using_claude_oauth |-> FALSE]

\* The environment with none of the three variables set.  A variable is 0
\* when unset or empty; CLAUDE_EXPIRES_AT is its number, or NotANumber.
NoEnv == [CLAUDE_ACCESS_TOKEN |-> 0, CLAUDE_REFRESH_TOKEN |-> 0, CLAUDE_EXPIRES_AT |-> 0]

\* get_access_token is not under way.
NoSvcCall == [pc |-> "idle", require_oauth |-> FALSE, refreshes |-> 0]

NoSvcRet == [op |-> "none", result |-> "none", token |-> 0, beta |-> "none", refreshes |-> 0]

\* No request was handed to the middleware.  sent: the upstream calls made
\* for the request; refreshed: the refreshes made for it; surfaced: the
\* status handed to the caller (0: none yet).
NoRequest == [stage |-> "none", user_id |-> "none", data |-> NoRequestData,
              sent |-> 0, refreshed |-> 0, surfaced |-> 0]

Idle == [pc |-> "idle", state |-> 0, code_verifier |-> 0, token_data |-> NoTokens]

NoFlowRet == [op |-> "none", state |-> 0, result |-> "none", n |-> 0]

\* ClaudeOAuthHandler: states are numbered in the order generate_state draws
\* them; 0 is a string that does not decrypt to state data.
PkceStates == 1..MaxPkceStates
ExchangeIds == 1..MaxExchanges
NoPkce == [code_verifier |-> 0, user_id |-> "none", timestamp |-> 0]
NoExchange == [pc |-> "idle", state |-> 0, user_id |-> "none", code_verifier |-> 0]
NoHandlerRet == [op |-> "none", state |-> 0, status_code |-> 0, detail |-> "none"]

\* get_token_stats was not called.
NoStats == [op |-> "none", active_tokens |-> 0, expiring_soon |-> 0, expired |-> 0,
            refreshing |-> 0, total_refreshes |-> 0, max_users |-> 0,
            is_max |-> [u \in AllUsers |-> FALSE]]

\* No cleanup_expired_states is under way in another process.
NoSweep == [pc |-> "idle", current_time |-> 0, todo |-> << >>, cleaned |-> 0]

VARIABLES
    now,                \* time.time()
    users,              \* the user ids that requests are made for
    pkce_storage,       \* ClaudeOAuthHandler.pkce_storage: state -> verifier, user, timestamp
    auth_states,        \* the state_data of the states get_authorization_url handed out
    exchanges,          \* the calls of exchange_code_for_token awaiting the token endpoint
    token_posts,        \* per state, the requests that reached the token endpoint
    handler_ret,        \* what the call of the handler just ended returned or raised
    stats,              \* what the last get_token_stats returned, and the is_max it saw
    auto_refresh,       \* ClaudeTokenManager.auto_refresh
    has_cache,          \* whether self.cache is configured
    active_tokens,      \* ClaudeTokenManager.active_tokens
    cache,              \* entries claude_token:<user_id> of self.cache
    refreshing_tokens,  \* ClaudeTokenManager.refreshing_tokens
    tasks,              \* coroutines: their position and locals
    ready,              \* the loop's FIFO of ready handles
    ntodo,              \* handles left to run in the current loop iteration
    monitor,            \* position of _refresh_monitor
    issued,             \* token pairs issued by the provider so far
    owner,              \* owner[n]: the user whose grant pair n was issued under
    calls,              \* refresh requests sent to the provider, per user
    ret,                \* what the step just taken returned to its caller
    gone,               \* history: how the user's record was last removed
    state_files,        \* ClaudeOAuthFlow: <state_dir>/claude_oauth_state_<state>.json
    nstates,            \* flow states handed out so far
    sweep,              \* cleanup_expired_states run by another process: position, locals
    flows,              \* complete_oauth_flow calls: their position and locals
    token_file,         \* ClaudeAuthService.token_file
    handler_tokens,     \* oauth_handler.access_token, .refresh_token, .expires_at
    handler_cache,      \* the handler's cache entry of user "default"
    token_requests,     \* requests sent to TOKEN_URL by exchange_code
    taken,              \* history: per state, the load_state calls that returned it
    flow_ret,           \* what the flow step just taken returned or raised
    db_key,             \* the key of ClaudeOAuthDatabase.fernet
    db_rows,            \* table litellm_claudeoauthtokens, by user_id
    db_calls,           \* calls of ClaudeOAuthDatabase: their position and locals
    db_ret,             \* what the database call just ended returned
    middleware,         \* ClaudeOAuthMiddleware: enabled, fallback_to_api_key
    request,            \* the request the middleware was last handed, and its position
    outgoing,           \* the last call of a method of ClaudeOAuthBearer: arguments, result
    env,                \* os.environ: CLAUDE_ACCESS_TOKEN, _REFRESH_TOKEN, _EXPIRES_AT
    svc_call,           \* get_access_token of the auth service: position and locals
    svc_ret             \* what the call of the auth service just ended returned

\* The authorization flow of ClaudeOAuthHandler.
pkce == <<pkce_storage, auth_states, exchanges, token_posts, handler_ret>>

vars == <<now, users, pkce, stats, auto_refresh, has_cache, active_tokens, cache, refreshing_tokens,
          tasks, ready, ntodo, monitor, issued, owner, calls, ret, gone,
          state_files, nstates, sweep, flows, token_file, handler_tokens, handler_cache,
          token_requests, taken, flow_ret, db_key, db_rows, db_calls, db_ret,
          middleware, request, outgoing, env, svc_call, svc_ret>>

\* The environment and the calls of ClaudeAuthService.
service == <<env, svc_call, svc_ret>>

\* The state of ClaudeOAuthMiddleware and of the request it handles.
interceptor == <<middleware, request, outgoing>>

\* The state of ClaudeOAuthDatabase and its table.
database == <<db_key, db_rows, db_calls, db_ret>>

\* The state of the flow store and the auth service.
flow == <<state_files, nstates, sweep, flows, token_file, handler_tokens, handler_cache,
          token_requests, taken, flow_ret>>

\* The same without the fields of the oauth_handler, which a refresh sets.
flow_rest == <<state_files, nstates, sweep, flows, token_file, handler_cache,
               token_requests, taken, flow_ret>>

config_rest == <<users, pkce, stats, auto_refresh, has_cache, flow_rest, database, interceptor,
                 service>>

\* What no step of the token manager but a refresh changes.
config == <<users, pkce, stats, auto_refresh, has_cache, flow, database, interceptor, service>>

\* The state of the token manager, the clock and the provider excluded.
manager == <<users, pkce, stats, auto_refresh, active_tokens, cache, refreshing_tokens,
             tasks, ready, ntodo, monitor, calls, ret, gone, database, interceptor,
             service>>

\* ------------------------------------------------------------- helpers
FreeSlots == {t \in TaskIds : tasks[t].kind = "free"}

MinOf(S) == CHOOSE x \in S : \A y \in S : x <= y

\* Slots the queued monitor pass may need for the refresh tasks it creates
\* (asyncio.gather); the task created by get_token takes over the slot of
\* the get_token call, which returns in the same step.
Reserved == IF monitor = "ready" THEN Cardinality(users) ELSE 0

Room(n) == Cardinality(FreeSlots) - Reserved >= n

\* 2 ** attempt, the seconds slept after a failed attempt.
Pow2(n) == 2^n

Bump(c) == IF c < CallsCap THEN c + 1 ELSE c

\* History kept for the properties: gone[u] is "revoked" once a caller's
\* revoke_token(u) has returned and "dead" once a refresh of u has returned
\* after its last attempt failed; it is "no" again from the moment a caller
\* calls store_token(u, ...).  A removal is recorded only if it is clean:
\* no store_token(u, ...) was called or under way at any moment between the
\* start of the revoke or refresh and its return.
StorePending(u) == \E t \in TaskIds : tasks[t].kind = "store" /\ tasks[t].user = u

Mark(t, how) ==
    gone' = IF tasks[t].clean THEN [gone EXCEPT ![tasks[t].user] = how] ELSE gone

Tainted(u) ==
    [t \in TaskIds |-> IF tasks[t].user = u /\ tasks[t].kind \in {"revoke", "refresh", "force"}
                       THEN [tasks[t] EXCEPT !.clean = FALSE] ELSE tasks[t]]

\* store_token, lines 213-221: the dict written to the cache.
CacheData(token_info) ==
    [accessToken |-> token_info.access_token,
     refreshToken |-> token_info.refresh_token,
     expiresAt |-> token_info.expires_at,
     refresh_count |-> token_info.refresh_count]

\* get_token, lines 254-264: the record built from what the cache answered.
FromCache(cache_data) ==
    IF cache_data = NoData THEN Absent
    ELSE [access_token |-> cache_data.accessToken,
          refresh_token |-> cache_data.refreshToken,
          expires_at |-> cache_data.expiresAt,
          refresh_count |-> cache_data.refresh_count]

\* The table is empty, no call is under way.
InitDatabase ==
    /\ db_key = 1
    /\ db_rows = [u \in AllUsers |-> NoRow]
    /\ db_calls = [c \in DbIds |-> NoCall]
    /\ db_ret = NoDbRet

\* No method of ClaudeOAuthBearer was called.  A text is the sequence of
\* its parts; the empty text also stands for None (the code tests both with
\* "if x" only).  A headers dict is a function on the keys it has.
NoOutgoing == [op |-> "none", headers_in |-> << >>, api_key |-> << >>,
               claude_oauth_token |-> << >>, getenv |-> << >>, headers |-> << >>,
               error_response |-> [status_code |-> 0,
                                   error |-> [type |-> << >>, message |-> << >>]],
               result |-> FALSE]

\* The middleware as constructed by default; no request was handled.
InitMiddleware ==
    /\ middleware = [enabled |-> TRUE, fallback_to_api_key |-> TRUE]
    /\ request = NoRequest
    /\ outgoing = NoOutgoing

\* Nothing is set in the environment, the auth service was not called.
InitService ==
    /\ env = NoEnv
    /\ svc_call = NoSvcCall
    /\ svc_ret = NoSvcRet

\* No flow was started, no tokens are held.
InitFlowStore ==
    /\ InitDatabase
    /\ InitMiddleware
    /\ InitService
    /\ state_files = [s \in AnyState |-> NoFile]
    /\ nstates = 0
    /\ sweep = NoSweep
    /\ stats = NoStats
    /\ pkce_storage = [s \in PkceStates |-> NoPkce]
    /\ auth_states = << >>
    /\ exchanges = [c \in ExchangeIds |-> NoExchange]
    /\ token_posts = [s \in PkceStates |-> 0]
    /\ handler_ret = NoHandlerRet
    /\ flows = [f \in FlowIds |-> Idle]
    /\ token_file = NoTokenFile
    /\ handler_tokens = NoTokens
    /\ handler_cache = NoTokens
    /\ token_requests = 0
    /\ taken = [s \in AnyState |-> 0]
    /\ flow_ret = NoFlowRet

InitWith(us) ==
    /\ InitFlowStore
    /\ now = 0
    /\ users = us
    /\ auto_refresh \in BOOLEAN
    /\ has_cache \in BOOLEAN
    /\ active_tokens = [u \in AllUsers |-> Absent]
    /\ cache = [u \in AllUsers |-> NoData]
    /\ refreshing_tokens = {}
    /\ tasks = [t \in TaskIds |-> Free]
    /\ ready = IF auto_refresh THEN <<MonitorId>> ELSE << >>
    /\ ntodo = 0
    /\ monitor = IF auto_refresh THEN "ready" ELSE "off"
    /\ issued = 0
    /\ owner = << >>
    /\ calls = [u \in AllUsers |-> 0]
    /\ ret = NoRet
    /\ gone = [u \in AllUsers |-> "no"]

\* The manager right after construction, serving one user.
Init == InitWith({"u1"})

\* ------------------------------------------------------------ the clock
\* Time passes while the loop waits in its poll; the code run within one
\* iteration takes no time on the clock of whole seconds.
Tick ==
    /\ ntodo = 0
    /\ now < MaxTime
    /\ now' = now + 1
    /\ ret' = NoRet
    /\ UNCHANGED <<config, active_tokens, cache, refreshing_tokens,
                   tasks, ready, ntodo, monitor, issued, owner, calls, gone>>

\* ------------------------------------------- events delivered by the poll
\* The loop polls only between two iterations (ntodo = 0); what the poll
\* delivers is appended to the ready queue behind the handles already there.
Polling == ntodo = 0

NewTask(k, u, au) ==
    [Free EXCEPT !.kind = k, !.pc = "start", !.user = u, !.auto = au, !.origin = "caller",
                 !.clean = (k \in {"revoke", "force"}) => ~StorePending(u)]

Arrive(rec) ==
    /\ Polling
    /\ Room(1)
    /\ tasks' = [IF rec.kind = "store" THEN Tainted(rec.user) ELSE tasks
                    EXCEPT ![MinOf(FreeSlots)] = rec]
    /\ ready' = Append(ready, MinOf(FreeSlots))
    /\ ret' = NoRet
    /\ UNCHANGED <<now, config, active_tokens, cache, refreshing_tokens,
                   ntodo, monitor, calls>>

\* A caller awaits get_token(user_id, auto_refresh).
CallGetToken(u, au) ==
    /\ Arrive(NewTask("get", u, au))
    /\ UNCHANGED <<issued, owner, gone>>

\* A caller awaits revoke_token(user_id) (DELETE /auth/claude/revoke).
CallRevokeToken(u) ==
    /\ Arrive(NewTask("revoke", u, FALSE))
    /\ UNCHANGED <<issued, owner, gone>>

\* POST /auth/claude/refresh for user u.
CallForceRefresh(u) ==
    /\ Arrive(NewTask("force", u, FALSE))
    /\ UNCHANGED <<issued, owner, gone>>

\* A caller awaits cleanup_expired_tokens().
CallCleanupExpiredTokens ==
    /\ Arrive(NewTask("cleanup", "none", FALSE))
    /\ UNCHANGED <<issued, owner, gone>>

\* A caller awaits store_token(user_id, token_info) with the tokens of a
\* completed authorization: a pair the provider just issued, expiring
\* ExpiresIn seconds from now, with or without a refresh token.  cap: the
\* pairs the provider issues in the run.
CallStoreTokenUpTo(u, withRefresh, cap) ==
    /\ issued < cap
    /\ Arrive([NewTask("store", u, FALSE) EXCEPT !.tok =
                  [access_token |-> issued + 1,
                   refresh_token |-> IF withRefresh THEN issued + 1 ELSE 0,
                   expires_at |-> now + ExpiresIn,
                   refresh_count |-> 0]])
    /\ issued' = issued + 1
    /\ owner' = Append(owner, u)
    /\ gone' = [gone EXCEPT ![u] = "no"]

CallStoreToken(u, withRefresh) == CallStoreTokenUpTo(u, withRefresh, MaxIssued)

Resume(t, rec) ==
    /\ Polling
    /\ tasks' = [tasks EXCEPT ![t] = rec]
    /\ ready' = Append(ready, t)
    /\ ret' = NoRet
    /\ UNCHANGED <<now, config, active_tokens, refreshing_tokens, ntodo, monitor, calls, gone>>

\* The user whose grant the token pair n belongs to.
OwnerOf(n) == IF n \in 1..Len(owner) THEN owner[n] ELSE "none"

SentRefreshToken_at_answer(at_call, handler) == handler.refreshToken

\* The refresh token in the body of a refresh request: the handler's
\* refresh_token field as refresh_access_token() reads it when it is called,
\* before its first suspension (at_call); handler holds the fields at the
\* time the provider answers.
SentRefreshToken(at_call, handler) == at_call

\* The provider answers the refresh request of coroutine t with a new
\* token pair; rotate says whether the answer carries a refresh token,
\* cap is the number of pairs the provider issues in the run.
HttpOkUpTo(t, rotate, cap) ==
    /\ tasks[t].pc = "http"
    /\ issued < cap
    /\ Resume(t, [tasks[t] EXCEPT !.pc = "resp", !.sent = 0,
                    !.resp = [status |-> 200, access_token |-> issued + 1,
                              refresh_token |-> IF rotate THEN issued + 1 ELSE 0,
                              expires_at |-> now + ExpiresIn]])
    /\ issued' = issued + 1
    /\ owner' = Append(owner, OwnerOf(SentRefreshToken(tasks[t].sent, handler_tokens)))
    /\ UNCHANGED cache

HttpOk(t, rotate) == HttpOkUpTo(t, rotate, MaxIssued)

\* The refresh request fails: 401 from the endpoint, or another failure
\* (5xx, timeout); refresh_access_token raises in both cases.
HttpFail(t, st) ==
    /\ tasks[t].pc = "http"
    /\ Resume(t, [tasks[t] EXCEPT !.pc = "resp", !.sent = 0,
                                   !.resp = [NoResp EXCEPT !.status = st]])
    /\ UNCHANGED <<cache, issued, owner>>

\* asyncio.sleep(2 ** attempt) of coroutine t is over.
TimerFire(t) ==
    /\ tasks[t].pc = "sleep"
    /\ now >= tasks[t].deadline
    /\ Resume(t, [tasks[t] EXCEPT !.pc = "retry", !.deadline = 0])
    /\ UNCHANGED <<cache, issued, owner>>

\* cache.async_set_cache(cache_key, cache_data) of coroutine t takes effect.
CacheSetDone(t) ==
    /\ tasks[t].pc = "cache_set"
    /\ cache' = [cache EXCEPT ![tasks[t].user] = CacheData(tasks[t].tok)]
    /\ Resume(t, [tasks[t] EXCEPT !.pc = "after_set", !.tok = Absent])
    /\ UNCHANGED <<issued, owner, owner>>

\* cache.async_delete_cache(cache_key) of coroutine t takes effect.
CacheDelDone(t) ==
    /\ tasks[t].pc = "cache_del"
    /\ cache' = [cache EXCEPT ![tasks[t].user] = NoData]
    /\ Resume(t, [tasks[t] EXCEPT !.pc = "after_del"])
    /\ UNCHANGED <<issued, owner, owner>>

\* cache.async_get_cache(cache_key) of coroutine t answers.
CacheGetDone(t) ==
    /\ tasks[t].pc \in {"cache_get", "cache_get2"}
    /\ Resume(t, [tasks[t] EXCEPT !.pc = IF @ = "cache_get" THEN "after_get" ELSE "after_get2",
                                  !.tok = FromCache(cache[tasks[t].user])])
    /\ UNCHANGED <<cache, issued, owner>>

\* asyncio.sleep(60) of _refresh_monitor is over.  The clock of the model
\* stops short of 60 s, so the wake-up is delivered at any poll.
MonitorWake ==
    /\ Polling
    /\ monitor = "sleep"
    /\ Room(Cardinality(users))
    /\ monitor' = "ready"
    /\ ready' = Append(ready, MonitorId)
    /\ ret' = NoRet
    /\ UNCHANGED <<now, config, active_tokens, cache, refreshing_tokens,
                   tasks, ntodo, issued, owner, calls, gone>>

\* The loop starts its next iteration: it runs the handles ready now.
BeginIteration ==
    /\ ntodo = 0
    /\ ready # << >>
    /\ ntodo' = Len(ready)
    /\ ret' = NoRet
    /\ UNCHANGED <<now, config, active_tokens, cache, refreshing_tokens,
                   tasks, ready, monitor, issued, owner, calls, gone>>

\* --------------------------------------------- code run by the event loop
Running(t) == ntodo > 0 /\ ready # << >> /\ Head(ready) = t

Rest == Tail(ready)

Ret(o, u, v, e) == [op |-> o, user |-> u, value |-> v, exp |-> e, time |-> now]

\* asyncio.gather returns when the last refresh it started is done; the
\* monitor then goes to asyncio.sleep(60).
MonitorAfter(t) ==
    IF tasks[t].origin = "sweeper"
       /\ \A s \in TaskIds \ {t} : tasks[s].origin # "sweeper"
    THEN "sleep" ELSE monitor

\* get_token, lines 276-284: the condition under which a refresh is started.
NeedsRefresh(u, ti, au) ==
    /\ au /\ auto_refresh
    /\ ti.expires_at <= now + refresh_threshold
    /\ u \notin refreshing_tokens
    /\ ti.refresh_token # 0

TokenIfValid_at_expiry(ti) == IF ti.expires_at >= now THEN ti.access_token ELSE 0

\* get_token, lines 286-290.
TokenIfValid(ti) == IF ti.expires_at > now THEN ti.access_token ELSE 0

\* get_token, lines 270-290, for the record ti found for user u.  The
\* refresh task that create_task makes is queued behind the ready handles.
GetTokenTail(t, u, ti) ==
    /\ ret' = Ret("get", u, TokenIfValid(ti), ti.expires_at)
    /\ IF NeedsRefresh(u, ti, tasks[t].auto)
       THEN /\ tasks' = [tasks EXCEPT ![t] = [Free EXCEPT !.kind = "refresh", !.pc = "start",
                                                !.user = u, !.tok = ti, !.origin = "get",
                                                !.clean = ~StorePending(u)]]
            /\ ready' = Append(Rest, t)
       ELSE /\ tasks' = [tasks EXCEPT ![t] = Free]
            /\ ready' = Rest

\* get_token, lines 246-268: memory lookup; on a miss the cache is asked.
GetTokenStart(t) ==
    /\ Running(t)
    /\ tasks[t].kind = "get" /\ tasks[t].pc = "start"
    /\ ntodo' = ntodo - 1
    /\ LET u == tasks[t].user
           ti == active_tokens[u]
       IN  IF ti # Absent
           THEN GetTokenTail(t, u, ti)
           ELSE IF has_cache
           THEN /\ tasks' = [tasks EXCEPT ![t].pc = "cache_get"]
                /\ ready' = Rest
                /\ ret' = NoRet
           ELSE /\ tasks' = [tasks EXCEPT ![t] = Free]
                /\ ready' = Rest
                /\ ret' = Ret("get", u, 0, 0)
    /\ UNCHANGED <<now, config, active_tokens, cache, refreshing_tokens,
                   monitor, issued, owner, calls, gone>>

\* get_token, lines 254-290, after async_get_cache answered: a hit is
\* put into the map (line 265).
GetTokenAfterCache(t) ==
    /\ Running(t)
    /\ tasks[t].kind = "get" /\ tasks[t].pc = "after_get"
    /\ ntodo' = ntodo - 1
    /\ LET u == tasks[t].user
           cd == tasks[t].tok
       IN  IF cd # Absent
           THEN /\ active_tokens' = [active_tokens EXCEPT ![u] = cd]
                /\ GetTokenTail(t, u, cd)
           ELSE /\ tasks' = [tasks EXCEPT ![t] = Free]
                /\ ready' = Rest
                /\ ret' = Ret("get", u, 0, 0)
                /\ UNCHANGED active_tokens
    /\ UNCHANGED <<now, config, cache, refreshing_tokens, monitor, issued, owner, calls, gone>>

\* store_token, lines 207-224, up to the await of async_set_cache.
StoreTokenStart(t) ==
    /\ Running(t)
    /\ tasks[t].kind = "store" /\ tasks[t].pc = "start"
    /\ ntodo' = ntodo - 1
    /\ LET u == tasks[t].user
       IN  /\ active_tokens' = [active_tokens EXCEPT ![u] = tasks[t].tok]
           /\ IF has_cache
              THEN /\ tasks' = [tasks EXCEPT ![t].pc = "cache_set"]
                   /\ ret' = NoRet
              ELSE /\ tasks' = [tasks EXCEPT ![t] = Free]
                   /\ ret' = Ret("store", u, 1, 0)
    /\ ready' = Rest
    /\ UNCHANGED <<now, config, cache, refreshing_tokens, monitor, issued, owner, calls, gone>>

\* revoke_token, lines 336-345, up to the await of async_delete_cache.
RevokeTokenStart(t) ==
    /\ Running(t)
    /\ tasks[t].kind = "revoke" /\ tasks[t].pc = "start"
    /\ ntodo' = ntodo - 1
    /\ LET u == tasks[t].user
       IN  /\ active_tokens' = [active_tokens EXCEPT ![u] = Absent]
           /\ refreshing_tokens' = refreshing_tokens \ {u}
           /\ IF has_cache
              THEN /\ tasks' = [tasks EXCEPT ![t].pc = "cache_del"]
                   /\ ret' = NoRet
                   /\ UNCHANGED gone
              ELSE /\ tasks' = [tasks EXCEPT ![t] = Free]
                   /\ ret' = Ret("revoke", u, 1, 0)
                   /\ Mark(t, "revoked")
    /\ ready' = Rest
    /\ UNCHANGED <<now, config, cache, monitor, issued, owner, calls>>

\* ------------------------------------------- _refresh_token_with_retry
\* _refresh_token_with_retry returns ok to whoever awaits it: the task
\* ends (kind refresh), or the /refresh endpoint goes on (kind force,
\* lines 278-291 of the endpoints): 500 on failure, on success a last
\* get_token(user_id, auto_refresh=False) and 200.
\* rt: the refreshing set as left by the refresh.
RefreshReturns(t, ok, rt) ==
    LET u == tasks[t].user
    IN  /\ refreshing_tokens' = rt
        /\ monitor' = MonitorAfter(t)
        /\ ready' = Rest
        /\ IF tasks[t].kind = "refresh"
           THEN /\ tasks' = [tasks EXCEPT ![t] = Free]
                /\ ret' = Ret("refresh", u, IF ok THEN 1 ELSE 0, 0)
           ELSE IF ~ok
           THEN /\ tasks' = [tasks EXCEPT ![t] = Free]
                /\ ret' = Ret("force", u, 500, 0)
           ELSE IF active_tokens'[u] = Absent /\ has_cache
           THEN /\ tasks' = [tasks EXCEPT ![t].pc = "cache_get2"]
                /\ ret' = NoRet
           ELSE /\ tasks' = [tasks EXCEPT ![t] = Free]
                /\ ret' = Ret("force", u, 200, 0)

AlreadyRefreshing_unchecked(u) == FALSE

\* Line 137: the single-flight check of _refresh_token_with_retry.
AlreadyRefreshing(u) == u \in refreshing_tokens

\* Lines 150-152: the fields of the shared oauth_handler, set from the
\* token_info of the refresh before every attempt.
HandlerFields(token_info) ==
    [accessToken |-> token_info.access_token,
     refreshToken |-> token_info.refresh_token,
     expiresAt |-> token_info.expires_at]

\* The handler keeps the tokens of the provider's answer in its own fields;
\* an answer without a refresh token leaves that field as it is.
HandlerAfterRefresh(handler, new_token_response) ==
    [accessToken |-> new_token_response.access_token,
     refreshToken |-> IF new_token_response.refresh_token # 0
                      THEN new_token_response.refresh_token
                      ELSE handler.refreshToken,
     expiresAt |-> new_token_response.expires_at]

\* Lines 137-155: the single-flight check, then the first attempt with
\* the token_info ti; refresh_access_token() sends the request.
RefreshBegin(t, ti) ==
    LET u == tasks[t].user
    IN  IF AlreadyRefreshing(u)
        THEN /\ RefreshReturns(t, FALSE, refreshing_tokens)
             /\ UNCHANGED <<calls, handler_tokens>>
        ELSE /\ refreshing_tokens' = refreshing_tokens \cup {u}
             /\ calls' = [calls EXCEPT ![u] = Bump(@)]
             /\ handler_tokens' = HandlerFields(ti)
             /\ tasks' = [tasks EXCEPT ![t].pc = "http", ![t].tok = ti, ![t].attempt = 0,
                                       ![t].sent = handler_tokens'.refreshToken]
             /\ ready' = Rest
             /\ ret' = NoRet
             /\ UNCHANGED monitor

\* A refresh task created by get_token or by the monitor starts to run.
RefreshStart(t) ==
    /\ Running(t)
    /\ tasks[t].kind = "refresh" /\ tasks[t].pc = "start"
    /\ ntodo' = ntodo - 1
    /\ UNCHANGED active_tokens
    /\ RefreshBegin(t, tasks[t].tok)
    /\ UNCHANGED <<now, config_rest, cache, issued, owner, gone>>

RefreshTokenOf_response_only(token_info, new_token_response) ==
    new_token_response.refresh_token

\* Line 161: new_token_response.get("refreshToken", token_info.refresh_token);
\* 0 stands for a response without the key.
RefreshTokenOf(token_info, new_token_response) ==
    IF new_token_response.refresh_token # 0
    THEN new_token_response.refresh_token
    ELSE token_info.refresh_token

NewTokenInfo_old_expiry(token_info, new_token_response) ==
    [access_token |-> new_token_response.access_token,
     refresh_token |-> RefreshTokenOf(token_info, new_token_response),
     expires_at |-> token_info.expires_at,
     refresh_count |-> token_info.refresh_count + 1]

\* Lines 158-167: the record built from the token response and from the
\* record the refresh was started with.
NewTokenInfo(token_info, new_token_response) ==
    [access_token |-> new_token_response.access_token,
     refresh_token |-> RefreshTokenOf(token_info, new_token_response),
     expires_at |-> new_token_response.expires_at,
     refresh_count |-> token_info.refresh_count + 1]

\* Lines 157-177: refresh_access_token() returned a token response; the
\* new record is stored (store_token, lines 207-224).
RefreshSucceeded(t) ==
    /\ Running(t)
    /\ tasks[t].kind \in {"refresh", "force"} /\ tasks[t].pc = "resp"
    /\ tasks[t].resp.status = 200
    /\ ntodo' = ntodo - 1
    /\ LET u == tasks[t].user
           new_token_info == NewTokenInfo(tasks[t].tok, tasks[t].resp)
       IN  /\ active_tokens' = [active_tokens EXCEPT ![u] = new_token_info]
           /\ IF has_cache
              THEN /\ tasks' = [tasks EXCEPT ![t].pc = "cache_set", ![t].tok = new_token_info,
                                              ![t].resp = NoResp, ![t].attempt = 0]
                   /\ ready' = Rest
                   /\ ret' = NoRet
                   /\ UNCHANGED <<refreshing_tokens, monitor>>
              ELSE RefreshReturns(t, TRUE, refreshing_tokens \ {u})
    /\ handler_tokens' = HandlerAfterRefresh(handler_tokens, tasks[t].resp)
    /\ UNCHANGED <<now, config_rest, cache, issued, owner, calls, gone>>

\* Lines 179-188: refresh_access_token() raised.  The last attempt revokes
\* the token (revoke_token, lines 336-345); an earlier one sleeps.
RefreshFailed(t) ==
    /\ Running(t)
    /\ tasks[t].kind \in {"refresh", "force"} /\ tasks[t].pc = "resp"
    /\ tasks[t].resp.status # 200
    /\ ntodo' = ntodo - 1
    /\ LET u == tasks[t].user
       IN  IF tasks[t].attempt = max_retries - 1
           THEN /\ active_tokens' = [active_tokens EXCEPT ![u] = Absent]
                /\ IF has_cache
                   THEN /\ refreshing_tokens' = refreshing_tokens \ {u}
                        /\ tasks' = [tasks EXCEPT ![t].pc = "cache_del", ![t].tok = Absent,
                                                   ![t].resp = NoResp, ![t].attempt = 0]
                        /\ ready' = Rest
                        /\ ret' = NoRet
                        /\ UNCHANGED <<monitor, gone>>
                   ELSE /\ RefreshReturns(t, FALSE, refreshing_tokens \ {u})
                        /\ Mark(t, "dead")
           ELSE /\ tasks' = [tasks EXCEPT ![t].pc = "sleep", ![t].resp = NoResp,
                                          ![t].deadline = now + Pow2(tasks[t].attempt)]
                /\ ready' = Rest
                /\ ret' = NoRet
                /\ UNCHANGED <<active_tokens, refreshing_tokens, monitor, gone>>
    /\ UNCHANGED <<now, config, cache, issued, owner, calls>>

\* Lines 143-155 for attempt > 0: the backoff is over, the next attempt
\* sends the request again.
RefreshRetry(t) ==
    /\ Running(t)
    /\ tasks[t].kind \in {"refresh", "force"} /\ tasks[t].pc = "retry"
    /\ ntodo' = ntodo - 1
    /\ calls' = [calls EXCEPT ![tasks[t].user] = Bump(@)]
    /\ handler_tokens' = HandlerFields(tasks[t].tok)
    /\ tasks' = [tasks EXCEPT ![t].pc = "http", ![t].attempt = @ + 1,
                              ![t].sent = handler_tokens'.refreshToken]
    /\ ready' = Rest
    /\ ret' = NoRet
    /\ UNCHANGED <<now, config_rest, active_tokens, cache, refreshing_tokens, monitor, issued, owner, gone>>

\* store_token returns after async_set_cache: to its caller, or into
\* _refresh_token_with_retry, which returns True through the finally.
AfterCacheSet(t) ==
    /\ Running(t)
    /\ tasks[t].pc = "after_set"
    /\ ntodo' = ntodo - 1
    /\ UNCHANGED active_tokens
    /\ LET u == tasks[t].user
       IN  IF tasks[t].kind = "store"
           THEN /\ tasks' = [tasks EXCEPT ![t] = Free]
                /\ ready' = Rest
                /\ ret' = Ret("store", u, 1, 0)
                /\ UNCHANGED <<refreshing_tokens, monitor>>
           ELSE RefreshReturns(t, TRUE, refreshing_tokens \ {u})
    /\ UNCHANGED <<now, config, cache, issued, owner, calls, gone>>

\* revoke_token returns after async_delete_cache: to its caller, or into
\* _refresh_token_with_retry, which returns False through the finally.
AfterCacheDel(t) ==
    /\ Running(t)
    /\ tasks[t].pc = "after_del"
    /\ tasks[t].kind # "cleanup"
    /\ ntodo' = ntodo - 1
    /\ UNCHANGED active_tokens
    /\ LET u == tasks[t].user
       IN  IF tasks[t].kind = "revoke"
           THEN /\ tasks' = [tasks EXCEPT ![t] = Free]
                /\ ready' = Rest
                /\ ret' = Ret("revoke", u, 1, 0)
                /\ Mark(t, "revoked")
                /\ UNCHANGED <<refreshing_tokens, monitor>>
           ELSE /\ RefreshReturns(t, FALSE, refreshing_tokens \ {u})
                /\ Mark(t, "dead")
    /\ UNCHANGED <<now, config, cache, issued, owner, calls>>

\* ------------------------------------------------ cleanup_expired_tokens
\* Lines 403-406: the users whose record has expired and has no refresh
\* token.
ExpiredUsers ==
    {u \in users : /\ active_tokens[u] # Absent
                   /\ active_tokens[u].expires_at <= now
                   /\ active_tokens[u].refresh_token = 0}

\* The sequences that list every element of S once.
Orders(S) == {f \in [1..Cardinality(S) -> S] : \A i, j \in DOMAIN f : f[i] = f[j] => i = j}

\* Lines 408-413: revoke_token is awaited for the users of todo in turn, n
\* users were listed.  Without a cache no revoke_token suspends and the
\* loop runs to its end; with one the loop suspends in the first
\* async_delete_cache.
CleanupLoop(t, todo, n) ==
    /\ ready' = Rest
    /\ IF todo = << >>
       THEN /\ tasks' = [tasks EXCEPT ![t] = Free]
            /\ ret' = Ret("cleanup", "none", n, 0)
            /\ UNCHANGED <<active_tokens, refreshing_tokens>>
       ELSE IF has_cache
       THEN /\ active_tokens' = [active_tokens EXCEPT ![Head(todo)] = Absent]
            /\ refreshing_tokens' = refreshing_tokens \ {Head(todo)}
            /\ tasks' = [tasks EXCEPT ![t].pc = "cache_del", ![t].user = Head(todo),
                                       ![t].todo = Tail(todo), ![t].attempt = n]
            /\ ret' = NoRet
       ELSE /\ active_tokens' = [u \in AllUsers |->
                                   IF \E i \in DOMAIN todo : todo[i] = u THEN Absent
                                   ELSE active_tokens[u]]
            /\ refreshing_tokens' = refreshing_tokens \ {todo[i] : i \in DOMAIN todo}
            /\ tasks' = [tasks EXCEPT ![t] = Free]
            /\ ret' = Ret("cleanup", "none", n, 0)

\* cleanup_expired_tokens starts: the expired users are listed in the order
\* of the dict (any order here).
CleanupStart(t) ==
    /\ Running(t)
    /\ tasks[t].kind = "cleanup" /\ tasks[t].pc = "start"
    /\ ntodo' = ntodo - 1
    /\ \E expired_users \in Orders(ExpiredUsers) :
          CleanupLoop(t, expired_users, Len(expired_users))
    /\ UNCHANGED <<now, config, cache, monitor, issued, owner, calls, gone>>

\* A revoke_token awaited by cleanup_expired_tokens returns; the loop goes
\* on with the next user.
CleanupAfterDel(t) ==
    /\ Running(t)
    /\ tasks[t].kind = "cleanup" /\ tasks[t].pc = "after_del"
    /\ ntodo' = ntodo - 1
    /\ CleanupLoop(t, tasks[t].todo, tasks[t].attempt)
    /\ UNCHANGED <<now, config, cache, monitor, issued, owner, calls, gone>>

\* ------------------------------------------------ POST /auth/claude/refresh
Answer(t, u, code) ==
    /\ tasks' = [tasks EXCEPT ![t] = Free]
    /\ ready' = Rest
    /\ ret' = Ret("force", u, code, 0)
    /\ UNCHANGED <<refreshing_tokens, calls, monitor, handler_tokens>>

\* Endpoint lines 257-276, once get_token(user_id, auto_refresh=False)
\* found the record ti: 404 without a valid token, 400 without a refresh
\* token, else _refresh_token_with_retry is awaited.
ForceTail(t, u, ti) ==
    IF TokenIfValid(ti) = 0 THEN Answer(t, u, 404)
    ELSE IF ti.refresh_token = 0 THEN Answer(t, u, 400)
    ELSE RefreshBegin(t, ti)

ForceStart(t) ==
    /\ Running(t)
    /\ tasks[t].kind = "force" /\ tasks[t].pc = "start"
    /\ ntodo' = ntodo - 1
    /\ UNCHANGED active_tokens
    /\ LET u == tasks[t].user
           ti == active_tokens[u]
       IN  IF ti # Absent THEN ForceTail(t, u, ti)
           ELSE IF has_cache
           THEN /\ tasks' = [tasks EXCEPT ![t].pc = "cache_get"]
                /\ ready' = Rest
                /\ ret' = NoRet
                /\ UNCHANGED <<refreshing_tokens, calls, monitor, handler_tokens>>
           ELSE Answer(t, u, 404)
    /\ UNCHANGED <<now, config_rest, cache, issued, owner, gone>>

ForceAfterCache(t) ==
    /\ Running(t)
    /\ tasks[t].kind = "force" /\ tasks[t].pc = "after_get"
    /\ ntodo' = ntodo - 1
    /\ LET u == tasks[t].user
           cd == tasks[t].tok
       IN  IF cd # Absent
           THEN /\ active_tokens' = [active_tokens EXCEPT ![u] = cd]
                /\ ForceTail(t, u, cd)
           ELSE /\ UNCHANGED active_tokens
                /\ Answer(t, u, 404)
    /\ UNCHANGED <<now, config_rest, cache, issued, owner, gone>>

\* Endpoint line 279: the get_token after a successful refresh had to ask
\* the cache; whatever it finds, the endpoint answers 200.
ForceLastGet(t) ==
    /\ Running(t)
    /\ tasks[t].kind = "force" /\ tasks[t].pc = "after_get2"
    /\ ntodo' = ntodo - 1
    /\ LET u == tasks[t].user
           cd == tasks[t].tok
       IN  /\ active_tokens' = IF cd # Absent THEN [active_tokens EXCEPT ![u] = cd]
                               ELSE active_tokens
           /\ Answer(t, u, 200)
    /\ UNCHANGED <<now, config, cache, issued, owner, gone>>

\* ------------------------------------------------------ _refresh_monitor
\* _check_and_refresh_tokens, lines 107-110: the records to refresh.
TokensToRefresh_none == {}

TokensToRefresh ==
    {u \in users : /\ active_tokens[u] # Absent
                   /\ active_tokens[u].expires_at <= now + refresh_threshold
                   /\ u \notin refreshing_tokens
                   /\ active_tokens[u].refresh_token # 0}

Injective(f) == \A i, j \in DOMAIN f : f[i] = f[j] => i = j

SortedFree ==
    CHOOSE f \in [1..Cardinality(FreeSlots) -> FreeSlots] :
        \A i, j \in 1..Cardinality(FreeSlots) : i < j => f[i] < f[j]

\* One pass of the monitor: _check_and_refresh_tokens hands one refresh
\* per due record to asyncio.gather (in the order of the dict, any order
\* here) and waits for them; with nothing due it sleeps at once.
MonitorPass ==
    /\ Running(MonitorId)
    /\ monitor = "ready"
    /\ ntodo' = ntodo - 1
    /\ ret' = NoRet
    /\ LET due == TokensToRefresh
           n == Cardinality(due)
       IN  IF n = 0
           THEN /\ monitor' = "sleep"
                /\ ready' = Rest
                /\ UNCHANGED tasks
           ELSE \E order \in {f \in [1..n -> due] : Injective(f)} :
                  /\ tasks' = [t \in TaskIds |->
                                 IF \E i \in 1..n : SortedFree[i] = t
                                 THEN LET i == CHOOSE i \in 1..n : SortedFree[i] = t
                                      IN  [Free EXCEPT !.kind = "refresh", !.pc = "start",
                                              !.user = order[i],
                                              !.tok = active_tokens[order[i]],
                                              !.origin = "sweeper",
                                              !.clean = ~StorePending(order[i])]
                                 ELSE tasks[t]]
                  /\ ready' = Rest \o [i \in 1..n |-> SortedFree[i]]
                  /\ monitor' = "gather"
    /\ UNCHANGED <<now, config, active_tokens, cache, refreshing_tokens, issued, owner, calls, gone>>

\* ------------------------------------------------------- specification
Next ==
    \/ Tick
    \/ BeginIteration
    \/ MonitorWake
    \/ MonitorPass
    \/ \E u \in users, au \in BOOLEAN : CallGetToken(u, au)
    \/ \E u \in users : CallRevokeToken(u)
    \/ \E u \in users : CallForceRefresh(u)
    \/ CallCleanupExpiredTokens
    \/ \E u \in users, wr \in BOOLEAN : CallStoreToken(u, wr)
    \/ \E t \in TaskIds, rot \in BOOLEAN : HttpOk(t, rot)
    \/ \E t \in TaskIds, st \in {401, 500} : HttpFail(t, st)
    \/ \E t \in TaskIds : TimerFire(t)
    \/ \E t \in TaskIds : CacheSetDone(t)
    \/ \E t \in TaskIds : CacheDelDone(t)
    \/ \E t \in TaskIds : CacheGetDone(t)
    \/ \E t \in TaskIds : GetTokenStart(t)
    \/ \E t \in TaskIds : GetTokenAfterCache(t)
    \/ \E t \in TaskIds : StoreTokenStart(t)
    \/ \E t \in TaskIds : RevokeTokenStart(t)
    \/ \E t \in TaskIds : RefreshStart(t)
    \/ \E t \in TaskIds : RefreshSucceeded(t)
    \/ \E t \in TaskIds : RefreshFailed(t)
    \/ \E t \in TaskIds : RefreshRetry(t)
    \/ \E t \in TaskIds : AfterCacheSet(t)
    \/ \E t \in TaskIds : AfterCacheDel(t)
    \/ \E t \in TaskIds : ForceStart(t)
    \/ \E t \in TaskIds : ForceAfterCache(t)
    \/ \E t \in TaskIds : ForceLastGet(t)
    \/ \E t \in TaskIds : CleanupStart(t)
    \/ \E t \in TaskIds : CleanupAfterDel(t)

Spec == Init /\ [][Next]_vars

\* ------------------------------------------- get_token under load
\* A record near expiry (now < expires_at <= now + refresh_threshold) with
\* a refresh token, as store_token left it.
Seed == [access_token |-> 1, refresh_token |-> 1,
         expires_at |-> refresh_threshold, refresh_count |-> 0]

\* The manager with auto_refresh on holds the record Seed of user u1; the
\* monitor is about to make a pass or sleeps.
InitSeeded ==
    /\ InitFlowStore
    /\ now = 0
    /\ users = {"u1"}
    /\ auto_refresh = TRUE
    /\ has_cache \in BOOLEAN
    /\ active_tokens = [u \in AllUsers |-> IF u = "u1" THEN Seed ELSE Absent]
    /\ cache = [u \in AllUsers |-> IF u = "u1" /\ has_cache THEN CacheData(Seed) ELSE NoData]
    /\ refreshing_tokens = {}
    /\ tasks = [t \in TaskIds |-> Free]
    /\ monitor \in {"ready", "sleep"}
    /\ ready = IF monitor = "ready" THEN <<MonitorId>> ELSE << >>
    /\ ntodo = 0
    /\ issued = 1
    /\ owner = <<"u1">>
    /\ calls = [u \in AllUsers |-> 0]
    /\ ret = NoRet
    /\ gone = [u \in AllUsers |-> "no"]

\* Callers only call get_token(u, auto_refresh=True), any number of times
\* and up to MaxTasks at once; the provider answers every refresh request
\* with a new token pair; all of it happens within one second of the clock.
NextLoad ==
    \/ BeginIteration
    \/ MonitorWake
    \/ MonitorPass
    \/ \E u \in users : CallGetToken(u, TRUE)
    \/ \E t \in TaskIds, rot \in BOOLEAN : HttpOk(t, rot)
    \/ \E t \in TaskIds : CacheSetDone(t)
    \/ \E t \in TaskIds : GetTokenStart(t)
    \/ \E t \in TaskIds : RefreshStart(t)
    \/ \E t \in TaskIds : RefreshSucceeded(t)
    \/ \E t \in TaskIds : AfterCacheSet(t)

SpecLoad == InitSeeded /\ [][NextLoad]_vars

\* ------------------------------------------- get_token beside a refresh
\* As InitSeeded; with a cache the manager may have been constructed anew
\* since the record was stored, so that only the cache holds it.
InitRead ==
    /\ InitFlowStore
    /\ now = 0
    /\ users = {"u1"}
    /\ auto_refresh = TRUE
    /\ has_cache \in BOOLEAN
    /\ \E inMemory \in {TRUE, ~has_cache} :
          active_tokens = [u \in AllUsers |-> IF u = "u1" /\ inMemory THEN Seed ELSE Absent]
    /\ cache = [u \in AllUsers |-> IF u = "u1" /\ has_cache THEN CacheData(Seed) ELSE NoData]
    /\ refreshing_tokens = {}
    /\ tasks = [t \in TaskIds |-> Free]
    /\ monitor \in {"ready", "sleep"}
    /\ ready = IF monitor = "ready" THEN <<MonitorId>> ELSE << >>
    /\ ntodo = 0
    /\ issued = 1
    /\ owner = <<"u1">>
    /\ calls = [u \in AllUsers |-> 0]
    /\ ret = NoRet
    /\ gone = [u \in AllUsers |-> "no"]

\* As NextLoad, with the answers of the cache to get_token.
NextRead ==
    \/ NextLoad
    \/ \E t \in TaskIds : CacheGetDone(t)
    \/ \E t \in TaskIds : GetTokenAfterCache(t)

SpecRead == InitRead /\ [][NextRead]_vars

\* ------------------------------------------- refresh without callers
\* The record Seed is near expiry; get_token was called once or not at all.
InitLive ==
    /\ InitFlowStore
    /\ now = 0
    /\ users = {"u1"}
    /\ auto_refresh = TRUE
    /\ has_cache \in BOOLEAN
    /\ active_tokens = [u \in AllUsers |-> IF u = "u1" THEN Seed ELSE Absent]
    /\ cache = [u \in AllUsers |-> IF u = "u1" /\ has_cache THEN CacheData(Seed) ELSE NoData]
    /\ refreshing_tokens = {}
    /\ monitor \in {"ready", "sleep"}
    /\ \E called \in BOOLEAN :
          /\ tasks = [t \in TaskIds |-> IF called /\ t = 1 THEN NewTask("get", "u1", TRUE)
                                         ELSE Free]
          /\ ready = (IF monitor = "ready" THEN <<MonitorId>> ELSE << >>)
                        \o (IF called THEN <<1>> ELSE << >>)
    /\ ntodo = 0
    /\ issued = 1
    /\ owner = <<"u1">>
    /\ calls = [u \in AllUsers |-> 0]
    /\ ret = NoRet
    /\ gone = [u \in AllUsers |-> "no"]

\* The handle at the head of the ready queue runs.
LoopStep ==
    \/ MonitorPass
    \/ \E t \in TaskIds : GetTokenStart(t)
    \/ \E t \in TaskIds : RefreshStart(t)
    \/ \E t \in TaskIds : RefreshSucceeded(t)
    \/ \E t \in TaskIds : AfterCacheSet(t)

\* The provider answers a refresh request with tokens.
ProviderAnswers == \E t \in TaskIds, rot \in BOOLEAN : HttpOk(t, rot)

CacheAnswers == \E t \in TaskIds : CacheSetDone(t)

\* No caller calls; the provider answers every refresh request with tokens.
NextLive ==
    \/ Tick
    \/ BeginIteration
    \/ MonitorWake
    \/ ProviderAnswers
    \/ CacheAnswers
    \/ LoopStep

\* The loop keeps running its iterations and the handles that are ready.
\* An answer of the provider or the cache and a timer that is due can be
\* delivered at every poll of the loop, between two iterations, and are
\* delivered at one of them.  The clock may stand still.
SpecLive ==
    /\ InitLive
    /\ [][NextLive]_vars
    /\ WF_vars(BeginIteration)
    /\ WF_vars(LoopStep)
    /\ SF_vars(ProviderAnswers)
    /\ SF_vars(CacheAnswers)
    /\ SF_vars(MonitorWake)

\* ------------------------------------------- refreshes racing with callers
\* The manager without a cache and with a provider that answers every
\* refresh request with tokens; callers store, revoke, read and force
\* refreshes in any order.
InitRace ==
    /\ InitWith({"u1"})
    /\ has_cache = FALSE

NextRace ==
    \/ Tick
    \/ BeginIteration
    \/ MonitorWake
    \/ MonitorPass
    \/ \E u \in users : CallGetToken(u, TRUE)
    \/ \E u \in users : CallRevokeToken(u)
    \/ \E u \in users : CallForceRefresh(u)
    \/ \E u \in users : CallStoreTokenUpTo(u, TRUE, MaxRaceIssued)
    \/ \E t \in TaskIds : HttpOkUpTo(t, FALSE, MaxRaceIssued)
    \/ \E t \in TaskIds : GetTokenStart(t)
    \/ \E t \in TaskIds : StoreTokenStart(t)
    \/ \E t \in TaskIds : RevokeTokenStart(t)
    \/ \E t \in TaskIds : RefreshStart(t)
    \/ \E t \in TaskIds : RefreshSucceeded(t)
    \/ \E t \in TaskIds : ForceStart(t)

SpecRace == InitRace /\ [][NextRace]_vars

\* ------------------------------------------- a sweeper pass that raises
AfterPassError_ends == "done"

\* _refresh_monitor, lines 96-98: the exception is logged and the monitor
\* sleeps its 60 seconds.
AfterPassError == "sleep"

\* _check_and_refresh_tokens raises an Exception before it has started a
\* refresh (lines 102-110 change nothing); _refresh_monitor catches it.
MonitorPassRaises ==
    /\ Running(MonitorId)
    /\ monitor = "ready"
    /\ ntodo' = ntodo - 1
    /\ ready' = Rest
    /\ monitor' = AfterPassError
    /\ ret' = Ret("sweep_error", "none", 0, 0)
    /\ UNCHANGED <<now, config, active_tokens, cache, refreshing_tokens,
                   tasks, issued, owner, calls, gone>>

\* The coroutine of task t waits on a future (the request, a sleep, the
\* cache); else its handle is in the ready queue.
Waiting(t) == tasks[t].pc \in {"http", "sleep", "cache_set", "cache_del", "cache_get"}

\* The refreshes that asyncio.gather of the monitor waits for.
Children == {t \in TaskIds : tasks[t].origin = "sweeper"}

\* Task.cancel() on a refresh coroutine: CancelledError is thrown into it
\* when it runs next.  A coroutine that has not run yet ends without
\* running a line; one that is inside the try block (lines 142-191) leaves
\* through the finally.
CancelTask(rec) ==
    [rec EXCEPT !.pc = IF @ = "start" THEN "cancelled_start" ELSE "cancelled",
                !.resp = NoResp, !.deadline = 0]

\* shutdown(), lines 415-422: auto_refresh is switched off and the monitor
\* task is cancelled.  A monitor that sleeps or is about to run gets the
\* CancelledError at its next step; one that waits in asyncio.gather
\* passes the cancellation on to the refreshes it gathered and gets it
\* when the last of them is done.  Tasks made by get_token (line 282) are
\* referenced by nobody and are not cancelled.
Shutdown ==
    /\ Polling
    /\ auto_refresh
    /\ auto_refresh' = FALSE
    /\ ret' = NoRet
    /\ IF monitor = "gather"
       THEN /\ monitor' = "gather"
            /\ tasks' = [t \in TaskIds |-> IF t \in Children THEN CancelTask(tasks[t])
                                            ELSE tasks[t]]
            /\ ready' = ready \o [i \in 1..Cardinality({t \in Children : Waiting(t)}) |->
                                     CHOOSE t \in Children :
                                        /\ Waiting(t)
                                        /\ Cardinality({x \in Children : Waiting(x) /\ x < t}) = i - 1]
       ELSE /\ monitor' = IF monitor = "off" THEN "off" ELSE "cancelling"
            /\ ready' = IF monitor = "sleep" THEN Append(ready, MonitorId) ELSE ready
            /\ UNCHANGED tasks
    /\ UNCHANGED <<now, users, pkce, stats, has_cache, flow, database, interceptor, service, active_tokens,
                   cache, refreshing_tokens, ntodo, issued, owner, calls, gone>>

\* A cancelled refresh ends (CancelledError is no Exception: line 179 does
\* not catch it).  When it was the last one gathered, gather ends and the
\* monitor is woken with the CancelledError.
RefreshCancelled(t) ==
    /\ Running(t)
    /\ tasks[t].pc \in {"cancelled", "cancelled_start"}
    /\ ntodo' = ntodo - 1
    /\ refreshing_tokens' = IF tasks[t].pc = "cancelled"
                            THEN refreshing_tokens \ {tasks[t].user}
                            ELSE refreshing_tokens
    /\ tasks' = [tasks EXCEPT ![t] = Free]
    /\ ret' = NoRet
    /\ IF Children = {t}
       THEN /\ monitor' = "cancelling"
            /\ ready' = Append(Rest, MonitorId)
       ELSE /\ ready' = Rest
            /\ UNCHANGED monitor
    /\ UNCHANGED <<now, config, active_tokens, cache, issued, owner, calls, gone>>

\* The monitor task ends with CancelledError, which line 96 does not catch.
MonitorCancelled ==
    /\ Running(MonitorId)
    /\ monitor = "cancelling"
    /\ ntodo' = ntodo - 1
    /\ monitor' = "done"
    /\ ready' = Rest
    /\ ret' = NoRet
    /\ UNCHANGED <<now, config, active_tokens, cache, refreshing_tokens,
                   tasks, issued, owner, calls, gone>>

\* The manager without a cache holds the near-expiry record Seed; callers
\* call get_token, the provider answers or fails, and shutdown() is called
\* at some moment.
InitShut ==
    /\ InitSeeded
    /\ has_cache = FALSE

NextShut ==
    \/ Tick
    \/ BeginIteration
    \/ MonitorWake
    \/ MonitorPass
    \/ Shutdown
    \/ MonitorCancelled
    \/ \E u \in users : CallGetToken(u, TRUE)
    \/ \E t \in TaskIds, rot \in BOOLEAN : HttpOk(t, rot)
    \/ \E t \in TaskIds, st \in {401, 500} : HttpFail(t, st)
    \/ \E t \in TaskIds : TimerFire(t)
    \/ \E t \in TaskIds : GetTokenStart(t)
    \/ \E t \in TaskIds : RefreshStart(t)
    \/ \E t \in TaskIds : RefreshSucceeded(t)
    \/ \E t \in TaskIds : RefreshFailed(t)
    \/ \E t \in TaskIds : RefreshRetry(t)
    \/ \E t \in TaskIds : RefreshCancelled(t)

SpecShut == InitShut /\ [][NextShut]_vars

\* ------------------------------------------- the sweeper over time
\* The handle at the head of the ready queue runs; a pass of the monitor
\* ends normally or raises.
SweepStep ==
    \/ LoopStep
    \/ MonitorPassRaises
    \/ MonitorCancelled
    \/ \E t \in TaskIds : RefreshCancelled(t)

\* As NextLive, with passes that raise and with shutdown(); the clock
\* stands still.
NextSweep ==
    \/ BeginIteration
    \/ MonitorWake
    \/ ProviderAnswers
    \/ CacheAnswers
    \/ Shutdown
    \/ SweepStep

\* Fairness as in SpecLive; shutdown() may never be called.
SpecSweep ==
    /\ InitLive
    /\ [][NextSweep]_vars
    /\ WF_vars(BeginIteration)
    /\ WF_vars(SweepStep)
    /\ SF_vars(ProviderAnswers)
    /\ SF_vars(CacheAnswers)
    /\ SF_vars(MonitorWake)

\* ------------------------------------------- ClaudeOAuthFlow, auth service
\* Every step of this part starts on a call or on the answer of the token
\* endpoint, so the steps of different calls interleave in any order.
FlowRet(o, st, r) == [op |-> o, state |-> st, result |-> r, n |-> 0]

\* Time passes.
Elapse ==
    /\ now + FlowTick <= MaxFlowTime
    /\ now' = now + FlowTick
    /\ flow_ret' = NoFlowRet
    /\ UNCHANGED <<manager, has_cache, issued, owner, state_files, nstates, sweep, flows, token_file,
                   handler_tokens, handler_cache, token_requests, taken>>

\* save_state, lines 150-155: state_data; int(time.time()) is evaluated
\* once for timestamp and once more for expires_at.
OAuthState(code_verifier, first_read, second_read) ==
    [code_verifier |-> code_verifier,
     timestamp |-> first_read,
     expires_at |-> second_read + STATE_EXPIRY_SECONDS]

\* start_flow: generate_pkce_pair, generate_state, save_state.  The
\* verifier drawn for the state numbered s is numbered s as well.  The
\* clock may pass a second boundary between the two reads of save_state.
StartFlow ==
    \E gap \in 0..MaxReadGap :
        /\ nstates < MaxStates
        /\ now + gap <= MaxFlowTime
        /\ nstates' = nstates + 1
        /\ now' = now + gap
        /\ state_files' = [state_files EXCEPT ![nstates + 1] =
                              OAuthState(nstates + 1, now, now + gap)]
        /\ flow_ret' = FlowRet("start_flow", nstates + 1, "ok")
        /\ UNCHANGED <<manager, has_cache, issued, owner, sweep, flows, token_file,
                       handler_tokens, handler_cache, token_requests, taken>>

LoadState_no_expiry(st) ==
    [data |-> state_files[st], files |-> state_files]

\* load_state(state): what it returns and the state files it leaves; an
\* expired file is unlinked.
LoadState(st) ==
    LET f == state_files[st]
    IN  IF f = NoFile THEN [data |-> NoFile, files |-> state_files]
        ELSE IF now > f.expires_at
        THEN [data |-> NoFile, files |-> [state_files EXCEPT ![st] = NoFile]]
        ELSE [data |-> f, files |-> state_files]

StateRejected_never(state_data) == FALSE

\* exchange_code, line 238: "if not state_data".
StateRejected(state_data) == state_data = NoFile

\* complete_oauth_flow(code, st) is called: complete_flow, exchange_code up
\* to the await of the request to TOKEN_URL, or to the ValueError.
CompleteFlowCall(f, st) ==
    /\ flows[f].pc = "idle"
    /\ \A g \in FlowIds : flows[g].pc = "idle" => f <= g
    /\ LET r == LoadState(st)
       IN  /\ state_files' = r.files
           /\ IF StateRejected(r.data)
              THEN /\ flow_ret' = FlowRet("complete_oauth_flow", st, "ValueError")
                   /\ UNCHANGED <<flows, token_requests, taken>>
              ELSE /\ flows' = [flows EXCEPT ![f] = [Idle EXCEPT !.pc = "post", !.state = st,
                                                      !.code_verifier = r.data.code_verifier]]
                   /\ token_requests' = Bump(token_requests)
                   /\ taken' = [taken EXCEPT ![st] = Bump(@)]
                   /\ flow_ret' = FlowRet("exchange_code", st, "pending")
    /\ UNCHANGED <<manager, has_cache, now, issued, owner, nstates, sweep, token_file,
                   handler_tokens, handler_cache>>

\* _save_tokens, line 111: json.dumps(token_data) as written to the file.
TokenJson(token_data) ==
    [accessToken |-> Plain(token_data.accessToken),
     refreshToken |-> Plain(token_data.refreshToken),
     expiresAt |-> token_data.expiresAt]

\* The token endpoint answers with tokens: exchange_code unlinks the state
\* file and returns; complete_oauth_flow saves the tokens (_save_tokens)
\* and, with a cache, awaits oauth_handler.store_tokens.
ExchangeOk(f) ==
    /\ flows[f].pc = "post"
    /\ issued < MaxIssued
    /\ issued' = issued + 1
    /\ owner' = Append(owner, "default")
    /\ LET token_data == [accessToken |-> issued + 1, refreshToken |-> issued + 1,
                          expiresAt |-> now + ExpiresIn]
       IN  /\ state_files' = [state_files EXCEPT ![flows[f].state] = NoFile]
           /\ token_file' = TokenJson(token_data)
           /\ handler_tokens' = token_data
           /\ IF has_cache
              THEN /\ flows' = [flows EXCEPT ![f].pc = "store_tokens",
                                             ![f].token_data = token_data]
                   /\ flow_ret' = FlowRet("exchange_code", flows[f].state, "ok")
              ELSE /\ flows' = [flows EXCEPT ![f] = Idle]
                   /\ flow_ret' = FlowRet("complete_oauth_flow", flows[f].state, "ok")
    /\ UNCHANGED <<manager, has_cache, now, nstates, sweep, handler_cache, token_requests, taken>>

\* The token endpoint answers with an error: raise_for_status raises out of
\* exchange_code and complete_oauth_flow.
ExchangeFail(f) ==
    /\ flows[f].pc = "post"
    /\ flows' = [flows EXCEPT ![f] = Idle]
    /\ flow_ret' = FlowRet("complete_oauth_flow", flows[f].state, "HTTPStatusError")
    /\ UNCHANGED <<manager, has_cache, now, issued, owner, state_files, nstates, sweep, token_file,
                   handler_tokens, handler_cache, token_requests, taken>>

\* oauth_handler.store_tokens("default", token_data) has put the tokens
\* into the handler's cache; complete_oauth_flow returns.
StoreTokensDone(f) ==
    /\ flows[f].pc = "store_tokens"
    /\ handler_cache' = flows[f].token_data
    /\ flows' = [flows EXCEPT ![f] = Idle]
    /\ flow_ret' = FlowRet("complete_oauth_flow", flows[f].state, "ok")
    /\ UNCHANGED <<manager, has_cache, now, issued, owner, state_files, nstates, sweep, token_file,
                   handler_tokens, token_requests, taken>>

StateExpired_inclusive(current_time, state_dict) == current_time >= state_dict.expires_at

\* cleanup_expired_states, line 354.
StateExpired(current_time, state_dict) == current_time > state_dict.expires_at

\* cleanup_expired_states: unlinks the expired state files, returns their
\* number.
CleanupExpiredStates ==
    LET expired == {st \in AnyState : state_files[st] # NoFile
                                      /\ StateExpired(now, state_files[st])}
    IN  /\ state_files' = [st \in AnyState |-> IF st \in expired THEN NoFile
                                               ELSE state_files[st]]
        /\ flow_ret' = [FlowRet("cleanup_expired_states", 0, "ok")
                           EXCEPT !.n = Cardinality(expired)]
        /\ UNCHANGED <<manager, has_cache, now, issued, owner, nstates, sweep, flows, token_file,
                       handler_tokens, handler_cache, token_requests, taken>>

\* cleanup_expired_states run by another process on the same state
\* directory (the CLI beside the proxy), file operation by file operation.
\* Lines 348-351: the clock is read and glob lists the state files, in any
\* order.
CleanupBegin ==
    /\ sweep.pc = "idle"
    /\ \E todo \in Orders({st \in AnyState : state_files[st] # NoFile}) :
           sweep' = [pc |-> "read", current_time |-> now, todo |-> todo, cleaned |-> 0]
    /\ flow_ret' = NoFlowRet
    /\ UNCHANGED <<manager, has_cache, now, issued, owner, state_files, nstates, flows, token_file,
                   handler_tokens, handler_cache, token_requests, taken>>

\* Lines 352-354: the next file is read.  A file that is gone by now makes
\* read_text raise, which line 358 catches; an unexpired file is left.
CleanupRead ==
    /\ sweep.pc = "read" /\ sweep.todo # << >>
    /\ LET state_dict == state_files[Head(sweep.todo)]
       IN  sweep' = IF state_dict # NoFile /\ StateExpired(sweep.current_time, state_dict)
                    THEN [sweep EXCEPT !.pc = "unlink"]
                    ELSE [sweep EXCEPT !.todo = Tail(@)]
    /\ flow_ret' = NoFlowRet
    /\ UNCHANGED <<manager, has_cache, now, issued, owner, state_files, nstates, flows, token_file,
                   handler_tokens, handler_cache, token_requests, taken>>

\* Lines 355-356: unlink and count.  On a file that is gone by now unlink
\* raises FileNotFoundError, which line 358 catches.
CleanupUnlink ==
    /\ sweep.pc = "unlink"
    /\ IF state_files[Head(sweep.todo)] # NoFile
       THEN /\ state_files' = [state_files EXCEPT ![Head(sweep.todo)] = NoFile]
            /\ sweep' = [sweep EXCEPT !.pc = "read", !.todo = Tail(@), !.cleaned = @ + 1]
       ELSE /\ state_files' = state_files
            /\ sweep' = [sweep EXCEPT !.pc = "read", !.todo = Tail(@)]
    /\ flow_ret' = NoFlowRet
    /\ UNCHANGED <<manager, has_cache, now, issued, owner, nstates, flows, token_file,
                   handler_tokens, handler_cache, token_requests, taken>>

\* Lines 361-364: the loop is over, cleaned is returned.
CleanupReturn ==
    /\ sweep.pc = "read" /\ sweep.todo = << >>
    /\ sweep' = NoSweep
    /\ flow_ret' = [FlowRet("cleanup_expired_states", 0, "ok") EXCEPT !.n = sweep.cleaned]
    /\ UNCHANGED <<manager, has_cache, now, issued, owner, state_files, nstates, flows, token_file,
                   handler_tokens, handler_cache, token_requests, taken>>

\* The flow store without a cache, shared with a process that cleans up.
InitGlob ==
    /\ InitWith({"u1"})
    /\ auto_refresh = FALSE
    /\ has_cache = FALSE

NextGlob ==
    \/ Elapse
    \/ StartFlow
    \/ \E f \in FlowIds, st \in AnyState : CompleteFlowCall(f, st)
    \/ \E f \in FlowIds : ExchangeOk(f)
    \/ \E f \in FlowIds : ExchangeFail(f)
    \/ CleanupBegin
    \/ CleanupRead
    \/ CleanupUnlink
    \/ CleanupReturn

SpecGlob == InitGlob /\ [][NextGlob]_vars

\* The auth service right after construction: no token file, no token in
\* the environment; the token manager stays as constructed.
InitFlow ==
    /\ InitWith({"u1"})
    /\ auto_refresh = FALSE

NextFlow ==
    \/ Elapse
    \/ StartFlow
    \/ CleanupExpiredStates
    \/ \E f \in FlowIds, st \in AnyState : CompleteFlowCall(f, st)
    \/ \E f \in FlowIds : ExchangeOk(f)
    \/ \E f \in FlowIds : ExchangeFail(f)
    \/ \E f \in FlowIds : StoreTokensDone(f)

SpecFlow == InitFlow /\ [][NextFlow]_vars

(***************************************************************************)
(* ClaudeAuthService (claude_auth_service.py): loading the tokens at       *)
(* construction, get_headers, clear_tokens, get_access_token.  The handler *)
(* the service calls (get_valid_token with keywords, refresh_access_token  *)
(* without arguments, get_auth_headers) is modelled after the              *)
(* specification; what the service does with its answers is the code.      *)
(***************************************************************************)

\* What no call of the auth service changes.
beside == <<users, pkce, stats, auto_refresh, has_cache, active_tokens, cache, refreshing_tokens,
            tasks, ready, ntodo, monitor, calls, ret, gone, database, interceptor,
            nstates, sweep, flows, handler_cache, token_requests, taken, flow_ret>>

\* A value of CLAUDE_EXPIRES_AT that int() does not parse.
NotANumber == -1

\* What the three variables are set to, when set.
EnvToken == 8
EnvExpiry == 900

SvcRet(o, r, tok) == [NoSvcRet EXCEPT !.op = o, !.result = r, !.token = tok]

\* The environment changes.
SetEnv(access, refresh, expires) ==
    /\ env' = [CLAUDE_ACCESS_TOKEN |-> access, CLAUDE_REFRESH_TOKEN |-> refresh,
               CLAUDE_EXPIRES_AT |-> expires]
    /\ env' # env
    /\ UNCHANGED <<beside, now, issued, owner, svc_call, svc_ret, handler_tokens, token_file,
                   state_files>>

EnvComplete_any(e) ==
    e.CLAUDE_ACCESS_TOKEN # 0 \/ e.CLAUDE_REFRESH_TOKEN # 0 \/ e.CLAUDE_EXPIRES_AT # 0

\* _load_tokens, lines 87-91: all([os.getenv(...), ...]).
EnvComplete(e) ==
    e.CLAUDE_ACCESS_TOKEN # 0 /\ e.CLAUDE_REFRESH_TOKEN # 0 /\ e.CLAUDE_EXPIRES_AT # 0

\* _load_tokens, lines 77-80: json.loads of the token file.
TokenDataOf(file) ==
    [accessToken |-> file.accessToken.text,
     refreshToken |-> file.refreshToken.text,
     expiresAt |-> file.expiresAt]

\* ClaudeAuthService is constructed: a new handler, then _load_tokens from
\* the token file or else from the environment.  When int() raises on
\* CLAUDE_EXPIRES_AT the constructor raises and the service that was there
\* before, if any, stays.
LoadTokens ==
    /\ svc_call.pc = "idle"
    /\ IF token_file # NoTokenFile
       THEN /\ handler_tokens' = TokenDataOf(token_file)
            /\ svc_ret' = SvcRet("_load_tokens", "True", 0)
       ELSE IF EnvComplete(env)
       THEN IF env.CLAUDE_EXPIRES_AT = NotANumber
            THEN /\ handler_tokens' = handler_tokens
                 /\ svc_ret' = SvcRet("_load_tokens", "ValueError", 0)
            ELSE /\ handler_tokens' = [accessToken |-> env.CLAUDE_ACCESS_TOKEN,
                                       refreshToken |-> env.CLAUDE_REFRESH_TOKEN,
                                       expiresAt |-> env.CLAUDE_EXPIRES_AT]
                 /\ svc_ret' = SvcRet("_load_tokens", "True", 0)
       ELSE /\ handler_tokens' = NoTokens
            /\ svc_ret' = SvcRet("_load_tokens", "False", 0)
    /\ UNCHANGED <<beside, now, issued, owner, env, svc_call, token_file, state_files>>

NoAccessToken_never(handler) == FALSE

\* get_headers, line 306: "if not self.oauth_handler.access_token".
NoAccessToken(handler) == handler.accessToken = 0

\* get_headers: ValueError without an access token, else the headers of
\* the handler: Authorization: Bearer <access token> and anthropic-beta.
GetHeaders ==
    /\ svc_ret' = IF NoAccessToken(handler_tokens)
                  THEN SvcRet("get_headers", "ValueError", 0)
                  ELSE [SvcRet("get_headers", "headers", handler_tokens.accessToken)
                           EXCEPT !.beta = "oauth-2025-04-20"]
    /\ UNCHANGED <<beside, now, issued, owner, env, svc_call, handler_tokens, token_file,
                   state_files>>

\* clear_tokens: the handler's tokens, the token file, the expired state
\* files.
ClearTokens ==
    /\ handler_tokens' = NoTokens
    /\ token_file' = NoTokenFile
    /\ state_files' = [st \in AnyState |->
                          IF state_files[st] # NoFile /\ now > state_files[st].expires_at
                          THEN NoFile ELSE state_files[st]]
    /\ svc_ret' = SvcRet("clear_tokens", "None", 0)
    /\ UNCHANGED <<beside, now, issued, owner, env, svc_call>>

\* get_access_token(require_oauth=...) up to the await of get_valid_token.
GetAccessToken(require_oauth) ==
    /\ svc_call.pc = "idle"
    /\ svc_call' = [NoSvcCall EXCEPT !.pc = "get_valid_token", !.require_oauth = require_oauth]
    /\ svc_ret' = NoSvcRet
    /\ UNCHANGED <<beside, now, issued, owner, env, handler_tokens, token_file, state_files>>

\* get_valid_token of the handler: the access token held, if it has not
\* expired.
ValidToken(handler) ==
    IF handler.accessToken # 0 /\ handler.expiresAt > now THEN handler.accessToken ELSE 0

HasRefreshToken_always(handler) == TRUE

\* get_access_token, lines 146 and 154: self.oauth_handler.refresh_token.
HasRefreshToken(handler) == handler.refreshToken # 0

SvcReturn(result, tok) ==
    /\ svc_ret' = [SvcRet("get_access_token", result, tok)
                      EXCEPT !.refreshes = svc_call'.refreshes]
    /\ svc_call'.pc = "idle"

\* get_access_token, lines 135-156: get_valid_token answered; the token is
\* returned, or None without a refresh token, or refresh_access_token is
\* awaited.
ValidTokenAnswers ==
    /\ svc_call.pc = "get_valid_token"
    /\ IF ValidToken(handler_tokens) # 0
       THEN /\ svc_call' = NoSvcCall
            /\ SvcReturn("token", ValidToken(handler_tokens))
       ELSE IF ~HasRefreshToken(handler_tokens)
       THEN /\ svc_call' = NoSvcCall
            /\ SvcReturn("None", 0)
       ELSE /\ svc_call' = [svc_call EXCEPT !.pc = "refresh", !.refreshes = @ + 1]
            /\ svc_ret' = NoSvcRet
    /\ UNCHANGED <<beside, now, issued, owner, env, handler_tokens, token_file, state_files>>

\* refresh_access_token returned token_data: _save_tokens writes the file
\* and the handler, and the handler's access token is returned (lines
\* 156-158).
RefreshAnswersOk(rotate) ==
    /\ svc_call.pc = "refresh"
    /\ issued < MaxRaceIssued
    /\ issued' = issued + 1
    /\ owner' = Append(owner, "default")
    /\ LET token_data == [accessToken |-> issued + 1,
                          refreshToken |-> IF rotate THEN issued + 1
                                           ELSE handler_tokens.refreshToken,
                          expiresAt |-> now + ExpiresIn]
       IN  /\ token_file' = TokenJson(token_data)
           /\ handler_tokens' = token_data
           /\ svc_call' = [NoSvcCall EXCEPT !.refreshes = svc_call.refreshes]
           /\ SvcReturn("token", handler_tokens'.accessToken)
    /\ UNCHANGED <<beside, now, env, state_files>>

\* refresh_access_token raised: None is returned (lines 159-171).
RefreshAnswersFail ==
    /\ svc_call.pc = "refresh"
    /\ svc_call' = [NoSvcCall EXCEPT !.refreshes = svc_call.refreshes]
    /\ SvcReturn("None", 0)
    /\ UNCHANGED <<beside, now, issued, owner, env, handler_tokens, token_file, state_files>>

InitSvc ==
    /\ InitWith({"u1"})
    /\ auto_refresh = FALSE
    /\ has_cache = FALSE

NextSvc ==
    \/ Elapse
    \/ StartFlow
    \/ \E a, r \in {0, EnvToken}, e \in {0, NotANumber, EnvExpiry} : SetEnv(a, r, e)
    \/ LoadTokens
    \/ GetHeaders
    \/ ClearTokens
    \/ \E ro \in BOOLEAN : GetAccessToken(ro)
    \/ ValidTokenAnswers
    \/ \E rot \in BOOLEAN : RefreshAnswersOk(rot)
    \/ RefreshAnswersFail

SpecSvc == InitSvc /\ [][NextSvc]_vars

(***************************************************************************)
(* ClaudeOAuthDatabase (claude_oauth_db.py).  Its calls await the table,   *)
(* so calls for one user interleave at the awaits.  The table follows the  *)
(* Prisma client: create raises on a user_id that has a row; update and    *)
(* delete of a missing row change nothing and raise nothing.               *)
(***************************************************************************)

\* Everything but the database.
nondb == <<now, has_cache, issued, owner, users, pkce, stats, auto_refresh, active_tokens, cache,
           refreshing_tokens, tasks, ready, ntodo, monitor, calls, ret, gone, flow,
           interceptor, service>>

\* Fernet(k).encrypt(x): a token that seals x under k.
FernetEncrypt(k, x) == [sealed |-> TRUE, key |-> k, text |-> x]

\* Fernet(k).decrypt(data) succeeds on a token sealed under k only; it
\* raises InvalidToken on any other input.
FernetOpens(k, data) == data.sealed /\ data.key = k

\* _encrypt: the empty string and None are returned as they are.
Encrypt(k, x) == IF x # 0 THEN FernetEncrypt(k, x) ELSE Plain(x)

\* _decrypt: when Fernet raises, the error is logged and data is returned
\* as it came in.
Decrypt(k, data) ==
    IF data.text = 0 THEN data
    ELSE IF FernetOpens(k, data) THEN Plain(data.text)
    ELSE data

DbIdle(c) == db_calls[c].pc = "idle"

DbReturn(c, op, result, access, refresh) ==
    /\ db_ret' = [op |-> op, user |-> db_calls[c].user, result |-> result,
                  accessToken |-> access, refreshToken |-> refresh]
    /\ db_calls' = [db_calls EXCEPT ![c] = NoCall]

\* A ClaudeOAuthDatabase is constructed over the same table with the key k
\* (the configured key, or a key generated because none or an invalid one
\* was given); the calls of the instance before it have ended.
NewDatabase(k) ==
    /\ \A c \in DbIds : DbIdle(c)
    /\ k # db_key
    /\ db_key' = k
    /\ UNCHANGED <<nondb, db_rows, db_calls, db_ret>>

\* store_tokens up to its first await: the tokens are encrypted and
\* find_unique is sent.
DbStoreTokens(c, u, access_token, refresh_token) ==
    /\ DbIdle(c)
    /\ db_calls' = [db_calls EXCEPT ![c] =
           [pc |-> "store_find", user |-> u, existing |-> NoRow,
            data |-> [access_token_encrypted |-> Encrypt(db_key, access_token),
                      refresh_token_encrypted |->
                          IF refresh_token # 0 THEN Encrypt(db_key, refresh_token)
                          ELSE Plain(0),
                      expires_at |-> now + ExpiresIn,
                      refresh_count |-> 0]]]
    /\ UNCHANGED <<nondb, db_key, db_rows, db_ret>>

\* find_unique answers with the row as it is now; update or create is sent.
DbStoreFound(c) ==
    /\ db_calls[c].pc = "store_find"
    /\ db_rows[db_calls[c].user].refresh_count < MaxDbCount
    /\ db_calls' = [db_calls EXCEPT ![c].existing = db_rows[db_calls[c].user],
                                    ![c].pc = IF db_rows[db_calls[c].user] # NoRow
                                              THEN "store_update" ELSE "store_create"]
    /\ UNCHANGED <<nondb, db_key, db_rows, db_ret>>

\* update answers: the row, if it is still there, gets the new values and
\* the refresh_count of the row that find_unique returned, plus one.
DbStoreUpdated(c) ==
    LET u == db_calls[c].user IN
    /\ db_calls[c].pc = "store_update"
    /\ db_rows' = IF db_rows[u] = NoRow THEN db_rows
                  ELSE [db_rows EXCEPT ![u] =
                           [db_calls[c].data EXCEPT
                               !.refresh_count = db_calls[c].existing.refresh_count + 1]]
    /\ DbReturn(c, "store_tokens", "True", Plain(0), Plain(0))
    /\ UNCHANGED <<nondb, db_key>>

\* create answers: the row is inserted, or the unique user_id is taken by
\* now, create raises, and store_tokens returns False.
DbStoreCreated(c) ==
    LET u == db_calls[c].user IN
    /\ db_calls[c].pc = "store_create"
    /\ IF db_rows[u] = NoRow
       THEN /\ db_rows' = [db_rows EXCEPT ![u] = db_calls[c].data]
            /\ DbReturn(c, "store_tokens", "True", Plain(0), Plain(0))
       ELSE /\ db_rows' = db_rows
            /\ DbReturn(c, "store_tokens", "False", Plain(0), Plain(0))
    /\ UNCHANGED <<nondb, db_key>>

\* get_tokens up to its first await: find_unique is sent.
DbGetTokens(c, u) ==
    /\ DbIdle(c)
    /\ db_calls' = [db_calls EXCEPT ![c] = [NoCall EXCEPT !.pc = "get_find", !.user = u]]
    /\ UNCHANGED <<nondb, db_key, db_rows, db_ret>>

\* find_unique answers: no row, None is returned; else the update of
\* last_used is sent.
DbGetFound(c) ==
    LET token_record == db_rows[db_calls[c].user] IN
    /\ db_calls[c].pc = "get_find"
    /\ IF token_record = NoRow
       THEN DbReturn(c, "get_tokens", "None", Plain(0), Plain(0))
       ELSE /\ db_calls' = [db_calls EXCEPT ![c].existing = token_record,
                                            ![c].pc = "get_touch"]
            /\ db_ret' = db_ret
    /\ UNCHANGED <<nondb, db_key, db_rows>>

\* The update of last_used answers: the tokens of the row that find_unique
\* returned are returned, decrypted.
DbGetTouched(c) ==
    LET token_record == db_calls[c].existing IN
    /\ db_calls[c].pc = "get_touch"
    /\ DbReturn(c, "get_tokens", "dict",
                Decrypt(db_key, token_record.access_token_encrypted),
                Decrypt(db_key, token_record.refresh_token_encrypted))
    /\ UNCHANGED <<nondb, db_key, db_rows>>

\* delete_tokens up to its first await: delete is sent.
DbDeleteTokens(c, u) ==
    /\ DbIdle(c)
    /\ db_calls' = [db_calls EXCEPT ![c] = [NoCall EXCEPT !.pc = "delete", !.user = u]]
    /\ UNCHANGED <<nondb, db_key, db_rows, db_ret>>

\* delete answers: the row is gone, True is returned.
DbDeleted(c) ==
    /\ db_calls[c].pc = "delete"
    /\ db_rows' = [db_rows EXCEPT ![db_calls[c].user] = NoRow]
    /\ DbReturn(c, "delete_tokens", "True", Plain(0), Plain(0))
    /\ UNCHANGED <<nondb, db_key>>

\* One user, an idle manager, an empty table.
InitDb ==
    /\ InitWith({"u1"})
    /\ auto_refresh = FALSE
    /\ has_cache = FALSE

NextDb ==
    \/ \E k \in Keys : NewDatabase(k)
    \/ \E c \in DbIds, u \in users : \E a \in 1..MaxIssued, withRefresh \in BOOLEAN :
           DbStoreTokens(c, u, a, IF withRefresh THEN a ELSE 0)
    \/ \E c \in DbIds : DbStoreFound(c)
    \/ \E c \in DbIds : DbStoreUpdated(c)
    \/ \E c \in DbIds : DbStoreCreated(c)
    \/ \E c \in DbIds, u \in users : DbGetTokens(c, u)
    \/ \E c \in DbIds : DbGetFound(c)
    \/ \E c \in DbIds : DbGetTouched(c)
    \/ \E c \in DbIds, u \in users : DbDeleteTokens(c, u)
    \/ \E c \in DbIds : DbDeleted(c)

SpecDb == InitDb /\ [][NextDb]_vars

(***************************************************************************)
(* ClaudeOAuthMiddleware (claude_oauth_middleware.py).  process_request    *)
(* awaits get_token of the token manager and goes on in the step in which  *)
(* get_token returns, so what it returns is a function of the request and  *)
(* of what get_token returned.                                             *)
(***************************************************************************)

\* Model names that requests carry.
Models == {"claude-3-opus", "anthropic/other", "gpt-4", "none"}

\* is_claude_model: a name that contains one of claude_models or starts
\* with "anthropic/"; no model is no Claude model.
IsClaudeModel(model) == model \in {"claude-3-opus", "anthropic/other"}

\* Line 107: user_api_key_dict.user_id or user_api_key_dict.key_alias.
UserIdOf(user_id, key_alias) == IF user_id # "none" THEN user_id ELSE key_alias

\* A ClaudeOAuthMiddleware is constructed (lines 27-43).
NewMiddleware(enabled, fallback_to_api_key) ==
    /\ request.stage # "awaiting"
    /\ middleware' = [enabled |-> enabled, fallback_to_api_key |-> fallback_to_api_key]
    /\ middleware' # middleware
    /\ request' = NoRequest
    /\ UNCHANGED <<now, users, pkce, stats, auto_refresh, has_cache, flow, database, service, outgoing, active_tokens,
                   cache, refreshing_tokens, tasks, ready, ntodo, monitor, issued, owner,
                   calls, ret, gone>>

\* process_request, lines 98-115, up to the await of get_token: the
\* request is returned as it came when the middleware is off, the model is
\* no Claude model or the caller has no user id.
ProcessRequest(model, api_key, user_id, key_alias) ==
    LET uid == UserIdOf(user_id, key_alias)
        request_data == [NoRequestData EXCEPT !.model = model, !.api_key = api_key]
    IN  /\ \A t \in TaskIds : tasks[t].kind # "get"
        /\ IF ~middleware.enabled \/ ~IsClaudeModel(model) \/ uid = "none"
           THEN /\ request' = [NoRequest EXCEPT !.stage = "returned", !.user_id = uid,
                                             !.data = request_data]
                /\ UNCHANGED <<tasks, ready, ret>>
           ELSE /\ Polling
                /\ Room(1)
                /\ request' = [NoRequest EXCEPT !.stage = "awaiting", !.user_id = uid,
                                             !.data = request_data]
                /\ tasks' = [tasks EXCEPT ![MinOf(FreeSlots)] = NewTask("get", uid, TRUE)]
                /\ ready' = Append(ready, MinOf(FreeSlots))
                /\ ret' = NoRet
        /\ UNCHANGED <<now, users, pkce, stats, auto_refresh, has_cache, flow, database, service, outgoing, middleware,
                       active_tokens, cache, refreshing_tokens, ntodo, monitor, issued, owner,
                       calls, gone>>

\* cache.async_get_cache of get_token raises (the cache is down).
CacheGetRaises(t) ==
    /\ tasks[t].kind = "get" /\ tasks[t].pc = "cache_get"
    /\ Resume(t, [tasks[t] EXCEPT !.pc = "raised"])
    /\ UNCHANGED <<cache, issued, owner>>

\* get_token, line 252: the exception of async_get_cache is not caught and
\* reaches the caller of get_token.
GetTokenRaised(t) ==
    /\ Running(t)
    /\ tasks[t].kind = "get" /\ tasks[t].pc = "raised"
    /\ ntodo' = ntodo - 1
    /\ tasks' = [tasks EXCEPT ![t] = Free]
    /\ ready' = Rest
    /\ ret' = Ret("get_raised", tasks[t].user, 0, 0)
    /\ UNCHANGED <<now, config, active_tokens, cache, refreshing_tokens,
                   monitor, issued, owner, calls, gone>>

\* What process_request hands back: the status of the HTTPException it
\* raised (0: none) and request_data.
Passed(request_data) == [status |-> 0, data |-> request_data]

Refused(code) == [status |-> code, data |-> NoRequestData]

\* process_request, lines 117-145: get_token returned oauth_token (0: None).
AfterGetToken(request_data, oauth_token) ==
    IF oauth_token # 0
    THEN Passed([request_data EXCEPT
                    !.claude_oauth_token = oauth_token,
                    !.bearer = IF request_data.api_key = 0 THEN oauth_token ELSE 0,
                    !.using_claude_oauth = TRUE])
    ELSE IF ~middleware.fallback_to_api_key THEN Refused(401)
    ELSE Passed(request_data)

\* process_request, lines 147-157: get_token raised.
AfterGetTokenRaised(request_data) ==
    IF ~middleware.fallback_to_api_key THEN Refused(500) ELSE Passed(request_data)

\* The request has come back from process_request.
Processed ==
    \/ request.stage = "returned"
    \/ request.stage = "awaiting" /\ ret.op \in {"get", "get_raised"}

\* What process_request handed back for it.
ProcessRequestResult ==
    IF request.stage = "returned" THEN Passed(request.data)
    ELSE IF ret.op = "get_raised" THEN AfterGetTokenRaised(request.data)
    ELSE AfterGetToken(request.data, ret.value)

\* One user whose tokens are stored, expire and are asked for by the
\* middleware; the manager refreshes nothing on its own.
InitMw ==
    /\ InitWith({"u1"})
    /\ auto_refresh = FALSE

NextMw ==
    \/ Tick
    \/ BeginIteration
    \/ \E e, f \in BOOLEAN : NewMiddleware(e, f)
    \/ \E m \in Models, k \in {0, 1}, u, a \in users \cup {"none"} : ProcessRequest(m, k, u, a)
    \/ \E u \in users, wr \in BOOLEAN : CallStoreToken(u, wr)
    \/ \E t \in TaskIds : StoreTokenStart(t)
    \/ \E t \in TaskIds : CacheSetDone(t)
    \/ \E t \in TaskIds : AfterCacheSet(t)
    \/ \E t \in TaskIds : GetTokenStart(t)
    \/ \E t \in TaskIds : CacheGetDone(t)
    \/ \E t \in TaskIds : CacheGetRaises(t)
    \/ \E t \in TaskIds : GetTokenAfterCache(t)
    \/ \E t \in TaskIds : GetTokenRaised(t)

SpecMw == InitMw /\ [][NextMw]_vars

(***************************************************************************)
(* The interceptor on the upstream response.  The code that sends the      *)
(* request upstream and reads the response is the Anthropic provider of    *)
(* the proxy; it is modelled after section 4.8 of the specification, with  *)
(* should_refresh_token of bearer_auth.py as its test of the response.     *)
(***************************************************************************)

\* The "error" objects of upstream responses: type and message, each a
\* text (the sequence of its parts).
ErrorTexts ==
    {[type |-> <<"authentication_error">>, message |-> <<"Token_", "Expired">>],
     [type |-> << >>,                      message |-> <<"Unauthorized">>],
     [type |-> <<"invalid_", "token">>,    message |-> << >>],
     [type |-> <<"rate_limit_error">>,     message |-> <<"slow", "down">>],
     [type |-> <<"api_error">>,            message |-> <<"Server", "error">>]}

\* Lines 151-156.
RefreshIndicators == {<<"token_", "expired">>, <<"invalid_", "token">>, <<"expired">>,
                      <<"unauthorized">>}

\* str.lower(), part by part.
LowerPart(part) ==
    CASE part = "Token_" -> "token_"
      [] part = "Expired" -> "expired"
      [] part = "Unauthorized" -> "unauthorized"
      [] part = "Server" -> "server"
      [] OTHER -> part

Lower(text) == [i \in 1..Len(text) |-> LowerPart(text[i])]

\* indicator in text.
Contains(text, indicator) ==
    \E i \in 1..(Len(text) - Len(indicator) + 1) :
        SubSeq(text, i, i + Len(indicator) - 1) = indicator

IndicatorsIn_as_cased(error) ==
    {indicator \in RefreshIndicators :
        Contains(error.type \o <<" ">> \o error.message, indicator)}

\* should_refresh_token, lines 146-161: the refresh_indicators that occur
\* in f"{error_type} {error_message}".lower().
IndicatorsIn(error) ==
    {indicator \in RefreshIndicators :
        Contains(Lower(error.type \o <<" ">> \o error.message), indicator)}

ShouldRefreshToken_status_only(error_response) == error_response.status_code = 401

\* should_refresh_token, lines 133-168.
ShouldRefreshToken(error_response) ==
    \/ IndicatorsIn(error_response.error) # {}
    \/ error_response.status_code = 401

\* The upstream responses: 200, or an error with its status and its error
\* object.
Responses == {[status_code |-> 200, error |-> [type |-> << >>, message |-> << >>]]}
             \cup [status_code : {401, 429, 500}, error : ErrorTexts]

\* A request of user u to a Claude model, with the access token the
\* manager holds for u injected, is sent upstream.
UpstreamSend(u) ==
    /\ request.stage \notin {"awaiting", "upstream", "refreshing"}
    /\ active_tokens[u] # Absent
    /\ request' = [NoRequest EXCEPT
                      !.stage = "upstream", !.user_id = u, !.sent = 1,
                      !.data = [NoRequestData EXCEPT
                                   !.model = "claude-3-opus",
                                   !.claude_oauth_token = active_tokens[u].access_token,
                                   !.using_claude_oauth = TRUE]]
    /\ UNCHANGED <<now, users, pkce, stats, auto_refresh, has_cache, flow, database, service, outgoing, middleware,
                   active_tokens, cache, refreshing_tokens, tasks, ready, ntodo, monitor,
                   issued, owner, calls, ret, gone>>

\* The upstream answers.  An error that calls for a refresh, on the first
\* call of a user whose record is held, starts the refresh of that record
\* and waits for it; any other answer goes to the caller.
UpstreamAnswers(response) ==
    LET u == request.user_id IN
    /\ request.stage = "upstream"
    /\ IF /\ response.status_code # 200
          /\ ShouldRefreshToken(response)
          /\ request.sent = 1
          /\ active_tokens[u] # Absent
       THEN /\ Polling
            /\ Room(1)
            /\ request' = [request EXCEPT !.stage = "refreshing", !.refreshed = @ + 1,
                                          !.surfaced = response.status_code]
            /\ tasks' = [tasks EXCEPT ![MinOf(FreeSlots)] =
                            [Free EXCEPT !.kind = "refresh", !.pc = "start", !.user = u,
                                         !.tok = active_tokens[u], !.origin = "interceptor"]]
            /\ ready' = Append(ready, MinOf(FreeSlots))
            /\ ret' = NoRet
       ELSE /\ request' = [request EXCEPT !.stage = "done",
                                          !.surfaced = response.status_code]
            /\ UNCHANGED <<tasks, ready, ret>>
    /\ UNCHANGED <<now, users, pkce, stats, auto_refresh, has_cache, flow, database, service, outgoing, middleware,
                   active_tokens, cache, refreshing_tokens, ntodo, monitor, issued, owner,
                   calls, gone>>

\* The refresh the interceptor waits for has returned.
RefreshDue ==
    /\ request.stage = "refreshing"
    /\ ret.op = "refresh" /\ ret.user = request.user_id

\* After the refresh: with new tokens the upstream call is made once more;
\* a failed refresh leaves the error of the first call to the caller.
UpstreamRetry ==
    LET u == request.user_id IN
    /\ RefreshDue
    /\ request' = IF ret.value = 1 /\ active_tokens[u] # Absent
                  THEN [request EXCEPT
                           !.stage = "upstream", !.sent = @ + 1, !.surfaced = 0,
                           !.data.claude_oauth_token = active_tokens[u].access_token]
                  ELSE [request EXCEPT !.stage = "done"]
    /\ ret' = NoRet
    /\ UNCHANGED <<now, users, pkce, stats, auto_refresh, has_cache, flow, database, service, outgoing, middleware,
                   active_tokens, cache, refreshing_tokens, tasks, ready, ntodo, monitor,
                   issued, owner, calls, gone>>

\* One user, no sweeper, no cache.
InitUp ==
    /\ InitWith({"u1"})
    /\ auto_refresh = FALSE
    /\ has_cache = FALSE

\* What the loop, the callers, the provider and the upstream do.
UpStep ==
    \/ Tick
    \/ BeginIteration
    \/ \E u \in users, wr \in BOOLEAN : CallStoreTokenUpTo(u, wr, MaxRaceIssued)
    \/ \E t \in TaskIds : StoreTokenStart(t)
    \/ \E u \in users : UpstreamSend(u)
    \/ \E r \in Responses : UpstreamAnswers(r)
    \/ \E t \in TaskIds : RefreshStart(t)
    \/ \E t \in TaskIds : HttpOkUpTo(t, FALSE, MaxRaceIssued)
    \/ \E t \in TaskIds : HttpFail(t, 401)
    \/ \E t \in TaskIds : RefreshSucceeded(t)
    \/ \E t \in TaskIds : RefreshFailed(t)
    \/ \E t \in TaskIds : TimerFire(t)
    \/ \E t \in TaskIds : RefreshRetry(t)

\* The interceptor goes on in the step in which the refresh returns.
NextUp ==
    \/ UpstreamRetry
    \/ ~RefreshDue /\ UpStep

SpecUp == InitUp /\ [][NextUp]_vars

(***************************************************************************)
(* ClaudeOAuthBearer.prepare_oauth_headers (bearer_auth.py).  Texts are    *)
(* sequences of parts, so that startswith, replace and the f-string are    *)
(* what the code computes; a headers dict is keyed by the header name as   *)
(* it is spelled.                                                          *)
(***************************************************************************)

\* The header names a request comes with.
HeaderNames == {"x-api-key", "X-Api-Key", "Authorization", "anthropic-beta"}

\* The value a header of the incoming request has.
HeaderValue(name) ==
    IF name \in {"x-api-key", "X-Api-Key"} THEN <<"sk-ant-", "k1">>
    ELSE IF name = "Authorization" THEN <<"Bearer ", "old">>
    ELSE <<"files-api">>

\* The dicts passed as headers.
HeaderDicts == {[name \in present |-> HeaderValue(name)] : present \in SUBSET HeaderNames}

\* The values passed as api_key: None, "Bearer ", a bearer token, an
\* Anthropic API key, another key.
ApiKeys == {<< >>, <<"Bearer ">>, <<"Bearer ", "tok1">>, <<"sk-ant-", "k1">>, <<"other">>}

\* metadata.get("claude_oauth_token"): missing, or a token.
MetadataTokens == {<< >>, <<"tok2">>}

\* os.getenv("CLAUDE_ACCESS_TOKEN").
GetEnv(e) == IF e.CLAUDE_ACCESS_TOKEN = 0 THEN << >> ELSE <<"env-token">>

\* str.startswith(prefix), prefix one part.
StartsWith(text, prefix) == text # << >> /\ Head(text) = prefix

\* str.replace(old, ""): every occurrence goes.
Replace(text, old) == SelectSeq(text, LAMBDA part : part # old)

\* Lines 73-83: the token, by priority metadata > api_key > environment;
\* the empty text when there is none.
OauthTokenOf(api_key, claude_oauth_token, getenv) ==
    IF claude_oauth_token # << >> THEN claude_oauth_token
    ELSE IF StartsWith(api_key, "Bearer ") THEN Replace(api_key, "Bearer ")
    ELSE IF api_key = << >> \/ ~StartsWith(api_key, "sk-ant-") THEN getenv
    ELSE << >>

\* dict.pop(key, None).
Pop(headers, key) == [name \in DOMAIN headers \ {key} |-> headers[name]]

\* dict[key] = value.
SetItem(headers, key, value) ==
    [name \in DOMAIN headers \cup {key} |-> IF name = key THEN value ELSE headers[name]]

\* Lines 85-97: the headers that are returned.
PrepareOauthHeadersResult(headers, oauth_token) ==
    IF oauth_token # << >>
    THEN SetItem(Pop(SetItem(headers, "Authorization", <<"Bearer ">> \o oauth_token),
                     "x-api-key"),
                 "anthropic-beta", <<"oauth-2025-04-20">>)
    ELSE headers

\* prepare_oauth_headers(headers, api_key, metadata) is called and returns.
PrepareOauthHeaders(headers, api_key, claude_oauth_token) ==
    /\ outgoing' = [NoOutgoing EXCEPT
                       !.op = "prepare_oauth_headers",
                       !.headers_in = headers, !.api_key = api_key,
                       !.claude_oauth_token = claude_oauth_token, !.getenv = GetEnv(env),
                       !.headers = PrepareOauthHeadersResult(headers,
                                       OauthTokenOf(api_key, claude_oauth_token, GetEnv(env)))]
    /\ outgoing' # outgoing
    /\ UNCHANGED <<now, users, pkce, stats, auto_refresh, has_cache, flow, database, service, middleware,
                   request, active_tokens, cache, refreshing_tokens, tasks, ready, ntodo,
                   monitor, issued, owner, calls, ret, gone>>

\* The error responses should_refresh_token is asked about; status_code 0
\* stands for a response without the key.
ErrorResponses == [status_code : {0, 401, 429, 500}, error : ErrorTexts]

\* should_refresh_token(error_response) is called and returns.
ShouldRefreshTokenCalled(error_response) ==
    /\ outgoing' = [NoOutgoing EXCEPT !.op = "should_refresh_token",
                                      !.error_response = error_response,
                                      !.result = ShouldRefreshToken(error_response)]
    /\ outgoing' # outgoing
    /\ UNCHANGED <<now, users, pkce, stats, auto_refresh, has_cache, flow, database, service, middleware,
                   request, active_tokens, cache, refreshing_tokens, tasks, ready, ntodo,
                   monitor, issued, owner, calls, ret, gone>>

\* One user, nothing in the environment, no call made.
InitHdr ==
    /\ InitWith({"u1"})
    /\ auto_refresh = FALSE
    /\ has_cache = FALSE

NextHdr ==
    \/ \E a \in {0, EnvToken} : SetEnv(a, 0, 0)
    \/ \E headers \in HeaderDicts, api_key \in ApiKeys, tok \in MetadataTokens :
           PrepareOauthHeaders(headers, api_key, tok)
    \/ \E error_response \in ErrorResponses : ShouldRefreshTokenCalled(error_response)

SpecHdr == InitHdr /\ [][NextHdr]_vars

\* ------------------------------------------------------ get_token_stats
\* The users that have a record in memory.
Holders == {u \in AllUsers : active_tokens[u] # Absent}

ExpiringSoon_strict(token_info, current_time) ==
    token_info.expires_at < current_time + refresh_threshold

\* Line 367.
ExpiringSoon(token_info, current_time) ==
    token_info.expires_at <= current_time + refresh_threshold

\* sum(token_info.refresh_count for ...), lines 375-377.
RECURSIVE SumRefreshCount(_)
SumRefreshCount(S) ==
    IF S = {} THEN 0
    ELSE LET u == CHOOSE u \in S : TRUE
         IN  active_tokens[u].refresh_count + SumRefreshCount(S \ {u})

\* get_token_stats, lines 362-393; it awaits nothing.  is_max: the is_max
\* of the records held, which store_token takes from its caller and a
\* refresh from the provider's answer (line 164), so any value is there.
GetTokenStats(is_max) ==
    /\ \A u \in AllUsers \ Holders : ~is_max[u]
    /\ stats' = [op |-> "get_token_stats",
                 active_tokens |-> Cardinality(Holders),
                 expiring_soon |-> Cardinality({u \in Holders :
                                        ExpiringSoon(active_tokens[u], now)}),
                 expired |-> Cardinality({u \in Holders : active_tokens[u].expires_at <= now}),
                 refreshing |-> Cardinality(refreshing_tokens),
                 total_refreshes |-> SumRefreshCount(Holders),
                 max_users |-> Cardinality({u \in Holders : is_max[u]}),
                 is_max |-> is_max]
    /\ stats' # stats
    /\ UNCHANGED <<now, users, pkce, auto_refresh, has_cache, flow, database, interceptor, service,
                   active_tokens, cache, refreshing_tokens, tasks, ready, ntodo, monitor,
                   issued, owner, calls, ret, gone>>

\* ------------------------------------------------- two users, the sweeper
\* The manager serves two users without a cache, the sweeper is on; callers
\* store tokens and read them, the provider answers refresh requests with
\* tokens or fails them.
InitPair ==
    /\ InitWith(AllUsers)
    /\ auto_refresh = TRUE
    /\ has_cache = FALSE

NextPair ==
    \/ Tick
    \/ BeginIteration
    \/ MonitorWake
    \/ MonitorPass
    \/ \E u \in users : CallGetToken(u, TRUE)
    \/ \E u \in users : CallStoreTokenUpTo(u, TRUE, MaxIssued)
    \/ \E t \in TaskIds, rot \in BOOLEAN : HttpOkUpTo(t, rot, MaxRaceIssued)
    \/ \E t \in TaskIds : HttpFail(t, 500)
    \/ \E t \in TaskIds : TimerFire(t)
    \/ \E t \in TaskIds : GetTokenStart(t)
    \/ \E t \in TaskIds : StoreTokenStart(t)
    \/ \E t \in TaskIds : RefreshStart(t)
    \/ \E t \in TaskIds : RefreshSucceeded(t)
    \/ \E t \in TaskIds : RefreshFailed(t)
    \/ \E t \in TaskIds : RefreshRetry(t)

SpecPair == InitPair /\ [][NextPair]_vars

\* The same manager with callers that store tokens and ask for statistics.
NextStats ==
    \/ Tick
    \/ BeginIteration
    \/ MonitorWake
    \/ MonitorPass
    \/ \E u \in users : CallStoreTokenUpTo(u, TRUE, MaxIssued)
    \/ \E t \in TaskIds : HttpOkUpTo(t, FALSE, MaxRaceIssued)
    \/ \E t \in TaskIds : StoreTokenStart(t)
    \/ \E t \in TaskIds : RefreshStart(t)
    \/ \E t \in TaskIds : RefreshSucceeded(t)
    \/ \E is_max \in [AllUsers -> BOOLEAN] : GetTokenStats(is_max)

SpecStats == InitPair /\ [][NextStats]_vars

\* ------------------------------------- cleanup_expired_tokens, two users
\* The manager serves two users, without the sweeper; callers store tokens
\* and call cleanup_expired_tokens in any order.
InitClean ==
    /\ InitWith(AllUsers)
    /\ auto_refresh = FALSE

NextClean ==
    \/ Tick
    \/ BeginIteration
    \/ CallCleanupExpiredTokens
    \/ \E u \in users, wr \in BOOLEAN : CallStoreTokenUpTo(u, wr, MaxRaceIssued)
    \/ \E t \in TaskIds : CacheSetDone(t)
    \/ \E t \in TaskIds : CacheDelDone(t)
    \/ \E t \in TaskIds : StoreTokenStart(t)
    \/ \E t \in TaskIds : AfterCacheSet(t)
    \/ \E t \in TaskIds : CleanupStart(t)
    \/ \E t \in TaskIds : CleanupAfterDel(t)

SpecClean == InitClean /\ [][NextClean]_vars

\* ------------------------------------------------------------ properties
\* A refresh request of user u is in flight: refresh_access_token() was
\* called and has neither returned nor raised (line 155).
InFlight(u) == {t \in TaskIds : tasks[t].user = u /\ tasks[t].pc = "http"}

\* C1: for every user, in every reachable state, at most one refresh
\* request to the provider is in flight.
C1_SingleFlight == \A u \in AllUsers : Cardinality(InFlight(u)) <= 1

\* C2: whenever get_token returns, it returns None or the access token of a
\* record whose expires_at is later than the time of the return.
C2_NeverExpired == (ret.op = "get" /\ ret.value # 0) => ret.exp > ret.time

\* get_token served, after time has passed, a record in its last second.
C2_Witness ==
    /\ ret.op = "get" /\ ret.value # 0
    /\ ret.exp = ret.time + 1
    /\ now > 0

\* C3: once revoke_token(u) has returned, and until store_token is called
\* for u again, the user has no record in memory or cache and get_token(u)
\* returns None; also when a refresh of u was in flight at the revoke.
C3_RevokedStaysGone ==
    \A u \in AllUsers :
        gone[u] = "revoked" =>
            /\ active_tokens[u] = Absent
            /\ cache[u] = NoData
            /\ (ret.op = "get" /\ ret.user = u) => ret.value = 0

\* A refresh of user u is under way: _refresh_token_with_retry has passed
\* its single-flight check (line 140) and has not returned.
Refreshing(u) ==
    \E t \in TaskIds :
        /\ tasks[t].user = u
        /\ tasks[t].kind \in {"refresh", "force"}
        /\ tasks[t].pc \in {"http", "resp", "sleep", "retry",
                            "cache_set", "after_set", "cache_del", "after_del"}

\* C4: a caller's store_token(u, ...) or revoke_token(u) never takes effect
\* between the start and the end of a refresh of the same user.
C4_Serialized ==
    [][\A t \in TaskIds :
          (StoreTokenStart(t) \/ RevokeTokenStart(t)) => ~Refreshing(tasks[t].user)]_vars

C6_TakeOnce == \A st \in AnyState : taken[st] <= 1

\* C7: complete_oauth_flow with a state for which no state file exists
\* raises before any request to the token endpoint and changes neither the
\* token file, the handler's tokens, the cache nor any stored flow state.
C7_UnknownStateRejected ==
    [][\A f \in FlowIds, st \in AnyState :
          (CompleteFlowCall(f, st) /\ state_files[st] = NoFile) =>
              /\ flow_ret'.result = "ValueError"
              /\ token_requests' = token_requests
              /\ flows' = flows
              /\ token_file' = token_file
              /\ handler_tokens' = handler_tokens
              /\ handler_cache' = handler_cache
              /\ state_files' = state_files]_vars

\* complete_oauth_flow was refused for a state that was never handed out
\* while another flow's state is stored and tokens of an earlier flow are
\* held.
C7_Witness ==
    /\ flow_ret.op = "complete_oauth_flow" /\ flow_ret.result = "ValueError"
    /\ flow_ret.state > nstates
    /\ \E st \in AnyState : state_files[st] # NoFile
    /\ token_file # NoTokenFile

\* C8: a refresh makes at most max_retries attempts, and once it has
\* returned after the failure of its last attempt, and until store_token is
\* called for the user again, the user has no record in memory or cache and
\* get_token returns None.
C8_DeadStaysGone ==
    /\ \A t \in TaskIds : tasks[t].attempt < max_retries
    /\ \A u \in AllUsers :
        gone[u] = "dead" =>
            /\ active_tokens[u] = Absent
            /\ cache[u] = NoData
            /\ (ret.op = "get" /\ ret.user = u) => ret.value = 0

\* C9: a 401 from the refresh endpoint ends the retry loop: a refresh whose
\* attempt was answered with 401 does not go into the backoff for a
\* further attempt.
C9_DeadShortCircuits ==
    [][\A t \in TaskIds :
          (tasks[t].pc = "resp" /\ tasks[t].resp.status = 401) => tasks'[t].pc # "sleep"]_vars

C11_JoinsInFlight ==
    (ret.op = "get" /\ ret.exp # 0 /\ InFlight(ret.user) # {}) =>
        (ret.exp > ret.time /\ ret.value # 0)

\* C12: no refresh request is ever sent for a record without a refresh
\* token, and a pass of the sweeper over an expired record without a
\* refresh token removes that record.
C12_TerminalRecord ==
    [][/\ \A t \in TaskIds :
             (tasks'[t].pc = "http" /\ tasks[t].pc # "http") =>
                 tasks'[t].tok.refresh_token # 0
       /\ MonitorPass =>
             \A u \in users :
                 (/\ active_tokens[u] # Absent
                  /\ active_tokens[u].refresh_token = 0
                  /\ active_tokens[u].expires_at <= now) => active_tokens'[u] = Absent]_vars

\* C13: every successful refresh that finds a record stored for the user
\* replaces it by a record whose refresh_count is the stored count plus 1,
\* so the stored count never decreases from one refresh to the next.
C13_RefreshCountGrows ==
    [][\A t \in TaskIds :
          (RefreshSucceeded(t) /\ active_tokens[tasks[t].user] # Absent) =>
              active_tokens'[tasks[t].user].refresh_count =
                  active_tokens[tasks[t].user].refresh_count + 1]_vars

\* The expires_at that belongs to access token a in the runs in which the
\* clock stands still: Seed's, or that of a pair the provider issued.
IssuedExpiry(a) == IF a = Seed.access_token THEN Seed.expires_at ELSE now + ExpiresIn

\* C14: the access token get_token returns and the expires_at it checked
\* belong to one record, the one stored before the refresh or the one the
\* refresh stored, whether get_token read memory or the cache.
C14_NoTornRecord ==
    (ret.op = "get" /\ ret.value # 0) => ret.exp = IssuedExpiry(ret.value)

\* get_token returned the token the refresh has just stored while the
\* refresh is still writing the cache, which holds the old record.
C14_Witness ==
    /\ ret.op = "get" /\ ret.value = 2 /\ ret.exp = ExpiresIn
    /\ Refreshing("u1")
    /\ cache["u1"] = CacheData(Seed)

\* C15: once shutdown() was called no refresh request is sent any more, by
\* a refresh that get_token started or that sleeps in its backoff either,
\* and the sweeper makes no further pass.
C15_ShutdownStopsRefresh ==
    [][~auto_refresh =>
          /\ \A t \in TaskIds : tasks'[t].pc = "http" => tasks[t].pc = "http"
          /\ ~MonitorPass]_vars

\* C16: whether passes of the sweeper raise or not, unless shutdown() is
\* called the sweeper makes another pass again and again.
C16_SweeperSurvives ==
    <>(~auto_refresh) \/ []<><<MonitorPass \/ MonitorPassRaises>>_vars

\* A pass raised while the record Seed was due for a refresh that no one
\* has started; the monitor sleeps.
C16_Witness ==
    /\ ret.op = "sweep_error"
    /\ monitor = "sleep" /\ auto_refresh
    /\ active_tokens["u1"] = Seed /\ calls["u1"] = 0

\* C19: complete_oauth_flow fails differently for a state that was never
\* stored and for a stored state that has expired: the error raised for
\* the one is not the error raised for the other.
C19_DistinctStateErrors ==
    [][\A f \in FlowIds, st \in AnyState :
          (/\ flow_ret.op = "complete_oauth_flow"
           /\ flow_ret.result \notin {"ok", "HTTPStatusError"}
           /\ flow_ret.state \notin 1..nstates
           /\ CompleteFlowCall(f, st)
           /\ state_files[st] # NoFile
           /\ now > state_files[st].expires_at) =>
              flow_ret'.result # flow_ret.result]_vars

\* C20: complete_oauth_flow(code, "manual_entry") loads no flow state and
\* goes on to the token request although no such state was stored; with
\* any other state that is not stored it raises.
C20_ManualEntryBypass ==
    [][\A f \in FlowIds, st \in AnyState :
          (CompleteFlowCall(f, st) /\ state_files[st] = NoFile) =>
              IF st = manual_entry
              THEN flows'[f].pc = "post" /\ state_files' = state_files
              ELSE flow_ret'.result = "ValueError" /\ flows' = flows]_vars

\* C17: no persisted artifact holds an access token in plaintext: the
\* accessToken of the token file, when there is one, and the access token
\* column of every database row are sealed under a key.
C17_NoPlaintextAtRest ==
    /\ token_file.accessToken.text # 0 => token_file.accessToken.sealed
    /\ \A u \in AllUsers : db_rows[u].access_token_encrypted.text # 0 =>
           db_rows[u].access_token_encrypted.sealed

\* C18: encryption round-trips and is bound to the key: get_tokens on a row
\* sealed under the key of the database returns the token that was stored,
\* and on a row sealed under another key it fails and returns no token.
C18_RoundTripKeyBound ==
    [][\A c \in DbIds : DbGetTouched(c) =>
          LET sealed == db_calls[c].existing.access_token_encrypted IN
          IF sealed.key = db_key
          THEN db_ret'.result = "dict" /\ db_ret'.accessToken = Plain(sealed.text)
          ELSE db_ret'.result # "dict" /\ db_ret'.accessToken = Plain(0)]_vars

\* C21: every state file that save_state wrote expires 600 seconds after
\* its timestamp.
C21_ExpiryAfterCreation ==
    \A st \in 1..MaxStates : state_files[st] # NoFile =>
        state_files[st].expires_at = state_files[st].timestamp + STATE_EXPIRY_SECONDS

\* C22: a request to a Claude model for which no OAuth token is available
\* (no user id, get_token returned None, get_token raised) is passed on as
\* it came when the fallback to the API key is permitted, and is refused
\* with the OAuth-required error, status 401, when it is not.
C22_FallbackOrRefuse ==
    (/\ Processed
     /\ middleware.enabled
     /\ IsClaudeModel(request.data.model)
     /\ request.user_id = "none" \/ ret.op = "get_raised" \/ ret.value = 0)
    => IF middleware.fallback_to_api_key
       THEN ProcessRequestResult = Passed(request.data)
       ELSE ProcessRequestResult.status = 401

C24_HeadersOrNoToken ==
    [][GetHeaders =>
          /\ IF handler_tokens.accessToken = 0
             THEN svc_ret'.result = "ValueError"
             ELSE /\ svc_ret'.result = "headers"
                  /\ svc_ret'.token = handler_tokens.accessToken
                  /\ svc_ret'.beta = "oauth-2025-04-20"
          /\ UNCHANGED <<handler_tokens, token_file, state_files, svc_call, env>>]_vars

\* After clear_tokens removed the tokens of a service that held some,
\* get_headers raised.
C24_Witness ==
    /\ svc_ret.op = "get_headers" /\ svc_ret.result = "ValueError"
    /\ handler_tokens = NoTokens
    /\ issued > 0

C26_EnvAllOrNothing ==
    [][LoadTokens =>
          IF token_file # NoTokenFile
          THEN handler_tokens' = TokenDataOf(token_file)
          ELSE IF env.CLAUDE_ACCESS_TOKEN = 0 \/ env.CLAUDE_REFRESH_TOKEN = 0
                  \/ env.CLAUDE_EXPIRES_AT = 0
          THEN handler_tokens' = NoTokens /\ svc_ret'.result = "False"
          ELSE \/ /\ svc_ret'.result = "True"
                  /\ handler_tokens'.accessToken = env.CLAUDE_ACCESS_TOKEN
                  /\ handler_tokens'.refreshToken = env.CLAUDE_REFRESH_TOKEN
                  /\ handler_tokens'.expiresAt = env.CLAUDE_EXPIRES_AT
               \/ /\ svc_ret'.result = "ValueError"
                  /\ env.CLAUDE_EXPIRES_AT = NotANumber
                  /\ handler_tokens' = handler_tokens]_vars

\* With only two of the three variables set and no token file, loading
\* reported that no tokens were found.
C26_Witness ==
    /\ svc_ret.op = "_load_tokens" /\ svc_ret.result = "False"
    /\ env.CLAUDE_ACCESS_TOKEN = EnvToken /\ env.CLAUDE_REFRESH_TOKEN = EnvToken
    /\ env.CLAUDE_EXPIRES_AT = 0
    /\ token_file = NoTokenFile
    /\ handler_tokens = NoTokens

\* C27: with a cache, a get_token that misses in memory and hits the cache
\* puts the record into memory; and when a store_token, a successful
\* refresh or a revoke_token of a user returns and no other call for that
\* user is still running, the record in memory and the cache entry of that
\* user agree (both absent, or the same record).
C27_TiersConverge ==
    [][/\ \A t \in TaskIds :
             (GetTokenAfterCache(t) /\ cache[tasks[t].user] # NoData
                 /\ tasks[t].tok = FromCache(cache[tasks[t].user]))
             => active_tokens'[tasks[t].user] = FromCache(cache[tasks[t].user])
       /\ (/\ has_cache
           /\ \/ ret'.op \in {"store", "revoke"}
              \/ ret'.op = "refresh" /\ ret'.value = 1
              \/ ret'.op = "force" /\ ret'.value = 200
           /\ \A t \in TaskIds : tasks'[t].user # ret'.user)
          => (cache'[ret'.user] = CacheData(active_tokens'[ret'.user]))]_vars

\* C28: the table holds one row per user id (db_rows is keyed by it), and
\* a store_tokens that ends while the user has a row leaves that row with
\* the tokens and the expiry of this store, also when another store of the
\* same user ran between its find_unique and its create or update.
C28_StoreReplaces ==
    [][\A c \in DbIds :
          ((DbStoreUpdated(c) \/ DbStoreCreated(c)) /\ db_rows[db_calls[c].user] # NoRow)
          => /\ db_rows'[db_calls[c].user].access_token_encrypted
                    = db_calls[c].data.access_token_encrypted
             /\ db_rows'[db_calls[c].user].refresh_token_encrypted
                    = db_calls[c].data.refresh_token_encrypted
             /\ db_rows'[db_calls[c].user].expires_at = db_calls[c].data.expires_at]_vars

\* C29: POST /auth/claude/refresh for a user whose record is in memory and
\* has a refresh token is answered 200 or 500 and nothing else, whether the
\* record's access token has expired or not.
C29_RefreshStatuses ==
    (/\ ret.op = "force"
     /\ active_tokens[ret.user] # Absent
     /\ active_tokens[ret.user].refresh_token # 0)
        => ret.value \in {200, 500}

LowerName(name) == IF name = "X-Api-Key" THEN "x-api-key" ELSE name

\* C31: when prepare_oauth_headers has a token to use, the headers it
\* returns have Authorization: Bearer <token> and anthropic-beta:
\* oauth-2025-04-20 and no x-api-key header in any spelling; when it has
\* none, it returns the headers it was given.
C31_BearerReplacesApiKey ==
    outgoing.op = "prepare_oauth_headers" =>
        LET oauth_token == IF outgoing.claude_oauth_token # << >>
                           THEN outgoing.claude_oauth_token
                           ELSE IF Len(outgoing.api_key) = 2 /\ outgoing.api_key[1] = "Bearer "
                           THEN <<outgoing.api_key[2]>>
                           ELSE IF outgoing.api_key \in {<< >>, <<"other">>}
                           THEN outgoing.getenv
                           ELSE << >>
        IN  IF oauth_token # << >>
            THEN /\ "Authorization" \in DOMAIN outgoing.headers
                 /\ outgoing.headers["Authorization"] = <<"Bearer ">> \o oauth_token
                 /\ "anthropic-beta" \in DOMAIN outgoing.headers
                 /\ outgoing.headers["anthropic-beta"] = <<"oauth-2025-04-20">>
                 /\ \A name \in DOMAIN outgoing.headers : LowerName(name) # "x-api-key"
            ELSE outgoing.headers = outgoing.headers_in

\* C32: should_refresh_token returns true for an error response exactly
\* when its status is 401 or its error type or its error message contains,
\* in any case, one of token_expired, invalid_token, expired, unauthorized.
C32_RefreshSignals ==
    outgoing.op = "should_refresh_token" =>
        (outgoing.result
            <=> \/ outgoing.error_response.status_code = 401
                \/ \E indicator \in RefreshIndicators :
                      \/ Contains(Lower(outgoing.error_response.error.type), indicator)
                      \/ Contains(Lower(outgoing.error_response.error.message), indicator))

\* should_refresh_token answered false for a 500 "Server error".
C32_Witness ==
    /\ outgoing.op = "should_refresh_token"
    /\ outgoing.error_response.status_code = 500
    /\ outgoing.error_response.error.message = <<"Server", "error">>
    /\ ~outgoing.result

\* C33: a step of cleanup_expired_tokens removes from memory only records
\* that have expired and have no refresh token, and changes no other
\* record.
C33_CleanupOnlyDeadRecords ==
    [][\A t \in TaskIds :
          (CleanupStart(t) \/ CleanupAfterDel(t))
          => \A u \in users :
                \/ active_tokens'[u] = active_tokens[u]
                \/ /\ active_tokens'[u] = Absent
                   /\ active_tokens[u].expires_at <= now
                   /\ active_tokens[u].refresh_token = 0]_vars

\* C34: a complete_oauth_flow whose state file has an expires_at earlier
\* than the current time gets nothing from load_state: the file is deleted,
\* the call fails and sends nothing to the token endpoint; a state file
\* that has not expired is returned as saved, and the exchange goes on with
\* its state and verifier.
C34_ExpiredStateUnusable ==
    [][\A f \in FlowIds, st \in AnyState :
          (CompleteFlowCall(f, st) /\ state_files[st] # NoFile)
          => IF now > state_files[st].expires_at
             THEN /\ state_files'[st] = NoFile
                  /\ flow_ret'.result = "ValueError"
                  /\ flows' = flows
                  /\ token_requests' = token_requests
             ELSE /\ state_files' = state_files
                  /\ flows'[f].pc = "post"
                  /\ flows'[f].state = st
                  /\ flows'[f].code_verifier = state_files[st].code_verifier]_vars

\* A flow was refused for a state that was handed out, that no load_state
\* ever returned and whose file is gone, later than its expiry.
C34_Witness ==
    /\ flow_ret.op = "complete_oauth_flow" /\ flow_ret.result = "ValueError"
    /\ flow_ret.state \in 1..nstates
    /\ taken[flow_ret.state] = 0
    /\ state_files[flow_ret.state] = NoFile
    /\ now > STATE_EXPIRY_SECONDS + MaxReadGap

\* C35: cleanup_expired_states, run beside save_state, load_state and
\* exchange_code, deletes only state files whose expires_at is earlier than
\* the current time and deletes every such file that is still there at its
\* turn; it returns (no error leaves it) the number of files it deleted,
\* which is at most the number it listed.
C35_CleanupStatesSafe ==
    [][/\ (CleanupRead \/ CleanupUnlink)
          => \A st \in AnyState :
                \/ state_files'[st] = state_files[st]
                \/ /\ state_files'[st] = NoFile
                   /\ state_files[st].expires_at < now
       /\ (CleanupRead /\ state_files[Head(sweep.todo)] # NoFile
                       /\ state_files[Head(sweep.todo)].expires_at < sweep.current_time)
          => sweep'.pc = "unlink"
       /\ (CleanupUnlink /\ state_files[Head(sweep.todo)] # NoFile)
          => state_files'[Head(sweep.todo)] = NoFile
       /\ CleanupReturn
          => /\ flow_ret'.result = "ok"
             /\ flow_ret'.n = sweep.cleaned
             /\ state_files' = state_files]_vars

\* A cleanup returned that it deleted one file, and a state file that has
\* not expired is in place.
C35_Witness ==
    /\ flow_ret.op = "cleanup_expired_states" /\ flow_ret.n = 1
    /\ \E st \in AnyState : state_files[st] # NoFile /\ state_files[st].expires_at >= now

outside_pkce == <<users, stats, auto_refresh, has_cache, active_tokens, cache,
                  refreshing_tokens, tasks, ready, ntodo, monitor, issued, owner, calls, ret,
                  gone, flow, database, interceptor, service>>

HandlerRet(state, code, text) ==
    [op |-> "exchange_code_for_token", state |-> state, status_code |-> code, detail |-> text]

\* Time passes.
HandlerElapse ==
    /\ now + FlowTick <= MaxFlowTime
    /\ now' = now + FlowTick
    /\ handler_ret' = NoHandlerRet
    /\ UNCHANGED <<outside_pkce, pkce_storage, auth_states, exchanges, token_posts>>

\* Lines 196-200: the entries younger than 600 seconds are kept.
PruneVerifiers(storage, current_time) ==
    [s \in PkceStates |->
        IF storage[s] # NoPkce /\ current_time - storage[s].timestamp < PkceMaxAge
        THEN storage[s] ELSE NoPkce]

\* get_authorization_url, lines 183-218: a verifier and a state are drawn,
\* the verifier is stored under the state, old verifiers are dropped.
GetAuthorizationUrl(user_id) ==
    /\ Len(auth_states) < MaxPkceStates
    /\ LET state == Len(auth_states) + 1
           stored == [pkce_storage EXCEPT ![state] =
                         [code_verifier |-> state, user_id |-> user_id, timestamp |-> now]]
       IN  /\ auth_states' = Append(auth_states, [timestamp |-> now, user_id |-> user_id])
           /\ pkce_storage' = PruneVerifiers(stored, now)
           /\ handler_ret' = [op |-> "get_authorization_url", state |-> state,
                              status_code |-> 200, detail |-> "url"]
    /\ UNCHANGED <<outside_pkce, now, exchanges, token_posts>>

\* verify_state, lines 135-158: a string that does not decrypt and a state
\* older than 600 seconds both end in 400 "Invalid OAuth state" (the
\* HTTPException of line 143 is caught at line 153).
StateRefused(state, current_time) ==
    \/ state \notin 1..Len(auth_states)
    \/ current_time - auth_states[state].timestamp > StateMaxAge

TakeVerifier_kept(storage, state) == storage

\* Line 253: del self.pkce_storage[state].
TakeVerifier(storage, state) == [storage EXCEPT ![state] = NoPkce]

\* exchange_code_for_token, lines 238-275, up to the await of client.post.
ExchangeCodeForToken(c, state) ==
    /\ exchanges[c].pc = "idle"
    /\ IF StateRefused(state, now)
       THEN /\ handler_ret' = HandlerRet(state, 400, "Invalid OAuth state")
            /\ UNCHANGED <<pkce_storage, exchanges, token_posts>>
       ELSE IF pkce_storage[state] = NoPkce
       THEN /\ handler_ret' = HandlerRet(state, 400, "PKCE verifier not found")
            /\ UNCHANGED <<pkce_storage, exchanges, token_posts>>
       ELSE /\ pkce_storage' = TakeVerifier(pkce_storage, state)
            /\ exchanges' = [exchanges EXCEPT ![c] =
                                [pc |-> "post", state |-> state,
                                 user_id |-> pkce_storage[state].user_id,
                                 code_verifier |-> pkce_storage[state].code_verifier]]
            /\ token_posts' = [token_posts EXCEPT ![state] = @ + 1]
            /\ handler_ret' = NoHandlerRet
    /\ UNCHANGED <<outside_pkce, now, auth_states>>

\* Lines 275-298: the token endpoint answered call c with tokens ("ok"),
\* with an error status ("status"), or the request failed ("error").
TokenEndpointAnswers(c, answer) ==
    /\ exchanges[c].pc = "post"
    /\ exchanges' = [exchanges EXCEPT ![c] = NoExchange]
    /\ handler_ret' = CASE answer = "ok" -> HandlerRet(exchanges[c].state, 200, "token_response")
                        [] answer = "status" ->
                              HandlerRet(exchanges[c].state, 400,
                                         "Failed to exchange code for token")
                        [] OTHER -> HandlerRet(exchanges[c].state, 500, "Token exchange failed")
    /\ UNCHANGED <<outside_pkce, now, pkce_storage, auth_states, token_posts>>

InitPkce ==
    /\ InitWith({"u1"})
    /\ auto_refresh = FALSE
    /\ has_cache = FALSE

NextPkce ==
    \/ HandlerElapse
    \/ \E u \in users : GetAuthorizationUrl(u)
    \/ \E c \in ExchangeIds, st \in 0..MaxPkceStates : ExchangeCodeForToken(c, st)
    \/ \E c \in ExchangeIds, answer \in {"ok", "status", "error"} : TokenEndpointAnswers(c, answer)

SpecPkce == InitPkce /\ [][NextPkce]_vars

\* ======================================================== properties, 4

\* C37: a pass of the sweeper starts a refresh for a user exactly when the
\* user's record in memory expires at or before now + refresh_threshold,
\* has a refresh token and the user is not in the refreshing set; and no
\* user ever has two refresh requests in flight that the sweeper and
\* get_token started.
C37_SweeperSharesSingleFlight ==
    [][/\ MonitorPass
          => \A u \in users :
                (\E t \in TaskIds : /\ tasks[t].kind = "free"
                                    /\ tasks'[t].kind = "refresh"
                                    /\ tasks'[t].user = u
                                    /\ tasks'[t].origin = "sweeper")
                <=> (/\ active_tokens[u] # Absent
                     /\ active_tokens[u].expires_at <= now + refresh_threshold
                     /\ active_tokens[u].refresh_token # 0
                     /\ u \notin refreshing_tokens)
       /\ \A u \in users :
             Cardinality({t \in InFlight(u) : tasks[t].origin \in {"sweeper", "get"}}) <= 1]_vars

SlotHolders(u) ==
    {t \in TaskIds : /\ tasks[t].kind \in {"refresh", "force"}
                     /\ tasks[t].user = u
                     /\ tasks[t].pc \in {"http", "resp", "sleep", "retry", "cancelled",
                                         "cache_set", "after_set"}}

\* C39: a user is in the refreshing set exactly while a refresh of that
\* user that acquired the slot is in flight: no exit path leaves the user
\* in the set, and nothing takes the user out of the set while the refresh
\* is in flight.
C39_SlotIffInFlight ==
    \A u \in users : u \in refreshing_tokens <=> SlotHolders(u) # {}

\* The verifier of a state that was handed out is gone: a call took it, or
\* a later get_authorization_url dropped it.
VerifierGone(s) == s \in 1..Len(auth_states) /\ pkce_storage[s] = NoPkce

\* C40 as stated: at most one call per state reaches the token endpoint,
\* and a call with a state whose verifier was taken by an earlier call or
\* dropped for its age fails with "PKCE verifier not found" without
\* reaching the endpoint.
C40_LaterCallFindsNoVerifier ==
    [][\A s \in PkceStates :
          /\ token_posts'[s] <= 1
          /\ (VerifierGone(s) /\ \E c \in ExchangeIds : ExchangeCodeForToken(c, s))
             => /\ token_posts' = token_posts
                /\ handler_ret'.status_code = 400
                /\ handler_ret'.detail = "PKCE verifier not found"]_vars

\* C40, amended: at most one call per state reaches the token endpoint; a
\* call with a state whose verifier is gone fails with status 400 without
\* reaching the endpoint, with "PKCE verifier not found" while the state is
\* at most 600 seconds old and with "Invalid OAuth state" once it is older;
\* a state whose verifier was dropped for its age is at least 600 seconds
\* old.
C40_LaterCallRefused ==
    [][\A s \in PkceStates :
          /\ token_posts'[s] <= 1
          /\ (VerifierGone(s) /\ token_posts[s] = 0)
             => now - auth_states[s].timestamp >= PkceMaxAge
          /\ (VerifierGone(s) /\ \E c \in ExchangeIds : ExchangeCodeForToken(c, s))
             => /\ token_posts' = token_posts
                /\ handler_ret'.status_code = 400
                /\ handler_ret'.detail =
                      IF now - auth_states[s].timestamp > StateMaxAge
                      THEN "Invalid OAuth state"
                      ELSE "PKCE verifier not found"]_vars

\* A call with a state whose verifier was dropped for its age, made when the
\* state is older than 600 seconds, was refused by verify_state.
C40_Witness ==
    /\ handler_ret.op = "exchange_code_for_token"
    /\ handler_ret.detail = "Invalid OAuth state"
    /\ handler_ret.state \in 1..Len(auth_states)
    /\ pkce_storage[handler_ret.state] = NoPkce
    /\ token_posts[handler_ret.state] = 0
    /\ \E s \in PkceStates : token_posts[s] = 1

====
